---- MODULE Spec2Model ----
(***************************************************************************)
(* A model of fitbit2oscar's extraction-and-synchronization pipeline.      *)
(*                                                                         *)
(* Spec          : sync_timestamps driven by parse_sleep_health_data       *)
(*                 (parsers.py), one action per resumption point of the    *)
(*                 two generators.                                         *)
(* SpecChunk     : chunk_viatom_data (process_data.py and helpers.py).     *)
(* SpecHypnogram : generate_hypnogram (parsers.py).                        *)
(* SpecEfficiency: process_sleep_data (plugins/health_sync/extract.py).    *)
(* SpecVitals    : FitbitExtractor.extract_vitals_data with                *)
(*                 get_nested_value (fitbit_extractor.py).                 *)
(* SpecSleep     : FitbitExtractor.extract_sleep_data with                 *)
(*                 is_valid_sleep_entry (fitbit_extractor.py).             *)
(* SpecDates     : the date-range checks (time_helpers.py,                 *)
(*                 fitbit_extractor.py, extract.py).                       *)
(* SpecNested    : get_nested_value (fitbit_extractor.py, extractor'.py).  *)
(* SpecResolver  : Resolver and SleepConfig (config.py).                   *)
(* SpecConvert   : convert_timestamp (time_helpers.py).                    *)
(* SpecGlob      : _build_glob_pattern of the two handlers.                *)
(* SpecTimezone  : get_local_timezone (time_helpers.py).                   *)
(* SpecFile      : create_viatom_file (write_file.py).                     *)
(* SpecBinary    : prepare_viatom_binary_data (write_file.py).             *)
(* SpecTime      : convert_time_data (time_helpers.py, extract.py).        *)
(* SpecDreem     : parse_sleep_data into prepare_dreem_data.               *)
(* SpecCollect   : FitbitExtractor.collect_vitals_data over several files. *)
(* SpecStreams   : the vitals pipeline of Spec on streams with gaps and    *)
(*                 repeated samples.                                       *)
(* SpecEntry     : the sleep transformations of health_sync.               *)
(* SpecZone      : parse_offset (time_helpers.py).                         *)
(* SpecRegistry  : DataHandler.__init_subclass__ (handlers.py).            *)
(*                                                                         *)
(* A Python str is the sequence of its characters, so that splitting a     *)
(* key path and iterating over one are what they are in the code.          *)
(*                                                                         *)
(* Timestamps are whole minutes.  A Python exception is a transition to    *)
(* the control state "error".                                              *)
(***************************************************************************)
EXTENDS Integers, Sequences, FiniteSets, TLC

(***************************************************************************)
(* Bounds of the model.                                                    *)
(***************************************************************************)
\* Timestamps are 0, 5, ..., 5 * MaxTick minutes.
MaxTick == 5
\* chunk_viatom_data is given at most MaxSessions sessions, of 0..MaxShort
\* triples or of a length around the chunk size.
MaxSessions == 2
MaxShort == 2
\* generate_hypnogram is given at most MaxStages stage records.
MaxStages == 2
\* process_sleep_data is given at most MaxRows stage rows.
MaxRows == 2
\* extract_vitals_data is given at most MaxEntries entries.
MaxEntries == 3
\* extract_sleep_data is given at most MaxSleep entries, dated 0..MaxDay;
\* the date range is 1..MaxDay - 1.
MaxSleep == 2
MaxDay == 3
\* The date-range checks are given dates 0..MaxDate and a range within
\* 1..MaxDate - 1.
MaxDate == 4
\* One SleepConfig processes at most MaxResolve sleep entries.
MaxResolve == 3
\* _build_glob_pattern is given a start_date among the first
\* MaxGlobStart + 1 days of 2023 and a range of at most MaxGlobSpan + 1 days.
MaxGlobStart == 31
MaxGlobSpan == 31
\* create_viatom_file is given at most MaxChunks chunks.
MaxChunks == 2

(***************************************************************************)
(* General helpers.                                                        *)
(***************************************************************************)
Range(s) == {s[i] : i \in 1..Len(s)}

Last(s) == s[Len(s)]

RECURSIVE Concat(_)
Concat(ss) == IF ss = <<>> THEN <<>> ELSE Head(ss) \o Concat(Tail(ss))

RECURSIVE SortedSeq(_)
\* The increasing enumeration of a finite set of integers.
SortedSeq(S) ==
    IF S = {} THEN <<>>
    ELSE LET m == CHOOSE x \in S : \A y \in S : x <= y
         IN <<m>> \o SortedSeq(S \ {m})

(***************************************************************************)
(* Inputs: two streams of VitalsData, timestamps strictly increasing.      *)
(***************************************************************************)
Times == {5 * k : k \in 0..MaxTick}

\* Sample values are told apart by stream and by timestamp.
SpO2Value(t) == 90 + (t \div 5)
BpmValue(t) == 60 + (t \div 5)

\* VitalsData(timestamp, data)
VitalsData(t, d) == [timestamp |-> t, data |-> d]

SpO2Stream(S) == LET ts == SortedSeq(S)
                 IN [i \in 1..Len(ts) |-> VitalsData(ts[i], SpO2Value(ts[i]))]
BpmStream(S) == LET ts == SortedSeq(S)
                IN [i \in 1..Len(ts) |-> VitalsData(ts[i], BpmValue(ts[i]))]

TimestampsOf(stream) == {stream[i].timestamp : i \in 1..Len(stream)}

(***************************************************************************)
(* State of the vitals pipeline.                                           *)
(***************************************************************************)
VARIABLES
    spo2_data,      \* the SpO2 generator's items
    bpm_data,       \* the BPM generator's items
    spo2_pos,       \* items consumed from spo2_data
    bpm_pos,        \* items consumed from bpm_data
    spo2,           \* sync_timestamps' local spo2
    bpm,            \* sync_timestamps' local bpm
    counts_bound,   \* whether the locals spo2_count, bpm_count are bound
    spo2_count,
    bpm_count,
    spo2_entries,
    bpm_entries,
    sync_pc,        \* "outer" | "inner" | "yielded" | "done" | "error"
    pairs,          \* the pairs sync_timestamps has yielded, in order
    session,        \* parse_sleep_health_data's list object
    prev_timestamp,
    parse_pc,       \* "running" | "yielded" | "done" | "error"
    emitted,        \* the sessions yielded, each as read when it is yielded
    \* chunk_viatom_data
    viatom_data,    \* the sessions handed to chunk_viatom_data
    chunk_pc,       \* process_data.chunk_viatom_data: "running"|"done"|"error"
    viatom_chunks,  \* the chunks process_data.chunk_viatom_data has yielded
    chunks,         \* helpers.chunk_viatom_data's result
    helpers_pc,     \* helpers.chunk_viatom_data: "start" | "done"
    \* generate_hypnogram
    hyp_data,       \* the stage records (SleepData)
    sleep_stages,   \* the list generate_hypnogram returns
    hyp_pc,         \* "start" | "done"
    \* process_sleep_data
    csv_rows,       \* the stage rows of one sleep entry
    duration,       \* the entry's duration in seconds
    levels_dict,    \* the SleepLevels returned
    efficiency,     \* the efficiency returned
    eff_pc,         \* "start" | "done" | "error"
    \* extract_vitals_data
    vitals_data,    \* the entries read from one file
    vitals_key,     \* key: the key path of the value
    min_valid,
    vitals_pos,     \* entries consumed
    extracted_count,
    valid_count,
    vitals_out,     \* the samples yielded
    vitals_pc,      \* "running" | "done" | "error"
    \* extract_sleep_data
    sleep_data,     \* the raw sleep records
    required_fields,
    sleep_pos,      \* records consumed
    sleep_out,      \* the records for which an entry was yielded
    sleep_pc,       \* "running" | "done" | "error"
    \* the date-range checks
    check_date,     \* the date of a record or sample
    start_date,
    end_date,
    date_valid,     \* is_valid_date's result, "unset" before the call
    vitals_kept,    \* whether collect_vitals_data keeps the sample
    health_kept,    \* whether extract_sleep_health_data keeps the sample
    entry_valid,    \* is_valid_sleep_entry's outcome for a record so dated
    \* get_nested_value
    nested_data,    \* the record
    nested_key,
    nested_value,   \* FitbitExtractor.get_nested_value's result
    nested_result,  \* extractor'.get_nested_value's result
    \* Resolver and SleepConfig
    sleep_entries,  \* the entries processed through one SleepConfig
    entry_pos,      \* the entry being processed, 0 before the first
    computed,       \* Resolver._computed
    resolved,       \* what resolve has returned, call by call
    resolver_pc,    \* "running" | "error"
    \* convert_timestamp
    raw_timestamp,  \* the timestamp string, parsed
    timezone,       \* the target zone: its UTC offset in minutes
    use_seconds,
    converted,      \* the datetime returned
    convert_pc,     \* "start" | "done"
    \* _build_glob_pattern
    input_type,     \* args.input_type: "takeout" | "health_sync"
    date_type,      \* args.date_format: "DAILY" | "WEEKLY" | "MONTHLY" | ...
    glob_start,     \* start_date, a day number
    glob_end,       \* end_date
    glob_date,      \* the cursor
    patterns,       \* the patterns yielded
    glob_pc,        \* "running" | "done" | "error"
    \* get_local_timezone
    utc,            \* time.gmtime()
    local,          \* time.localtime()
    utc_offset,     \* the real offset, local minus UTC, in minutes
    tz_offset,      \* the offset of the timezone returned, in minutes
    tz_pc,          \* "start" | "done" | "error"
    \* create_viatom_file
    file_chunks,    \* data: the chunks to write
    files,          \* the files written: name and records
    file_pc,        \* "running" | "done" | "error"
    \* prepare_viatom_binary_data
    chunk_records,  \* data: one chunk
    binary_data,    \* the bytes returned
    binary_pc,      \* "start" | "done" | "error"
    \* convert_time_data
    time_minutes,   \* the argument minutes
    time_seconds,   \* the argument seconds
    time_string,    \* time_helpers.convert_time_data's result
    legacy_string,  \* extract.convert_time_data's result
    \* parse_sleep_data and prepare_dreem_data
    sleep_generator, \* the sleep entries extracted
    dreem_pos,      \* entries consumed
    dreem_rows,     \* the rows prepare_dreem_data has yielded
    dreem_pc,       \* "start" | "running" | "done" | "error"
    \* collect_vitals_data
    vitals_files,   \* the samples of each file, in enumeration order
    file_pos,       \* files consumed
    collected,      \* the stream handed to the synchronizer
    collect_pc,     \* "running" | "done"
    \* the sleep transformations of health_sync
    stage_rows,     \* the CSV rows of one sleep entry
    entry_duration, \* the entry's "duration"
    entry_levels,   \* the entry's "levels"
    entry_pc,       \* "start" | "duration" | "done" | "error"
    \* parse_offset
    zone,           \* the offset string
    zone_offset,    \* the offset of the timezone returned, in minutes
    zone_pc,        \* "start" | "done" | "error"
    \* DataHandler._registry
    registry,       \* package identifier -> handler class
    defined,        \* the subclasses defined, in order
    raised          \* whether the last class statement raised ValueError

syncVars == <<spo2_data, bpm_data, spo2_pos, bpm_pos, spo2, bpm, counts_bound,
              spo2_count, bpm_count, spo2_entries, bpm_entries, sync_pc, pairs>>
parseVars == <<session, prev_timestamp, parse_pc, emitted>>
chunkVars == <<viatom_data, chunk_pc, viatom_chunks, chunks, helpers_pc>>
hypVars == <<hyp_data, sleep_stages, hyp_pc>>
effVars == <<csv_rows, duration, levels_dict, efficiency, eff_pc>>
vitalsVars == <<vitals_data, vitals_key, min_valid, vitals_pos,
                extracted_count, valid_count, vitals_out, vitals_pc>>
sleepVars == <<sleep_data, required_fields, sleep_pos, sleep_out, sleep_pc>>
dateVars == <<check_date, start_date, end_date, date_valid, vitals_kept,
              health_kept, entry_valid>>
nestedVars == <<nested_data, nested_key, nested_value, nested_result>>
resolverVars == <<sleep_entries, entry_pos, computed, resolved, resolver_pc>>
convertVars == <<raw_timestamp, timezone, use_seconds, converted, convert_pc>>
globVars == <<input_type, date_type, glob_start, glob_end, glob_date,
              patterns, glob_pc>>
tzVars == <<utc, local, utc_offset, tz_offset, tz_pc>>
fileVars == <<file_chunks, files, file_pc>>
binaryVars == <<chunk_records, binary_data, binary_pc>>
\* The extraction and parsing components, and the helpers around them.
coreVars == <<syncVars, parseVars, chunkVars, hypVars, effVars, vitalsVars,
              sleepVars>>
helperVars == <<dateVars, nestedVars, resolverVars, convertVars, globVars,
                tzVars, fileVars, binaryVars>>
timeVars == <<time_minutes, time_seconds, time_string, legacy_string>>
dreemVars == <<sleep_generator, dreem_pos, dreem_rows, dreem_pc>>
collectVars == <<vitals_files, file_pos, collected, collect_pc>>
entryVars == <<stage_rows, entry_duration, entry_levels, entry_pc>>
zoneVars == <<zone, zone_offset, zone_pc>>
registryVars == <<registry, defined, raised>>
outputVars == <<timeVars, dreemVars, collectVars, entryVars, zoneVars,
                registryVars>>
vars == <<coreVars, helperVars, outputVars>>

\* What the actions of one component leave alone.
notSync == <<chunkVars, hypVars, effVars, vitalsVars, sleepVars,
    helperVars,
    outputVars>>
notChunk == <<syncVars, parseVars, hypVars, effVars, vitalsVars, sleepVars,
    helperVars,
    outputVars>>
notHyp == <<syncVars, parseVars, chunkVars, effVars, vitalsVars, sleepVars,
    helperVars,
    outputVars>>
notEff == <<syncVars, parseVars, chunkVars, hypVars, vitalsVars, sleepVars,
    helperVars,
    outputVars>>
notVitals == <<syncVars, parseVars, chunkVars, hypVars, effVars, sleepVars,
    helperVars,
    outputVars>>
notSleep == <<syncVars, parseVars, chunkVars, hypVars, effVars, vitalsVars,
    helperVars,
    outputVars>>

notDate == <<coreVars, nestedVars, resolverVars, convertVars, globVars,
             tzVars, fileVars, binaryVars,
    outputVars>>
notNested == <<coreVars, dateVars, resolverVars, convertVars, globVars,
               tzVars, fileVars, binaryVars,
    outputVars>>
notResolver == <<coreVars, dateVars, nestedVars, convertVars, globVars,
                 tzVars, fileVars, binaryVars,
    outputVars>>
notConvert == <<coreVars, dateVars, nestedVars, resolverVars, globVars,
                tzVars, fileVars, binaryVars,
    outputVars>>
notGlob == <<coreVars, dateVars, nestedVars, resolverVars, convertVars,
             tzVars, fileVars, binaryVars,
    outputVars>>
notTz == <<coreVars, dateVars, nestedVars, resolverVars, convertVars,
           globVars, fileVars, binaryVars,
    outputVars>>
notFile == <<coreVars, dateVars, nestedVars, resolverVars, convertVars,
             globVars, tzVars, binaryVars,
    outputVars>>
notBinary == <<coreVars, dateVars, nestedVars, resolverVars, convertVars,
               globVars, tzVars, fileVars,
    outputVars>>

notTime == <<coreVars, helperVars, dreemVars, collectVars, entryVars,
             zoneVars, registryVars>>
notDreem == <<coreVars, helperVars, timeVars, collectVars, entryVars,
              zoneVars, registryVars>>
notCollect == <<coreVars, helperVars, timeVars, dreemVars, entryVars,
                zoneVars, registryVars>>
notEntry == <<coreVars, helperVars, timeVars, dreemVars, collectVars,
              zoneVars, registryVars>>
notZone == <<coreVars, helperVars, timeVars, dreemVars, collectVars,
             entryVars, registryVars>>
notRegistry == <<coreVars, helperVars, timeVars, dreemVars, collectVars,
                 entryVars, zoneVars>>

\* A component that takes no part in a specification stays as constructed.
TimeIdle ==
    /\ time_minutes = 0
    /\ time_seconds = 0
    /\ time_string = <<>>
    /\ legacy_string = <<>>
DreemIdle ==
    /\ sleep_generator = <<>>
    /\ dreem_pos = 0
    /\ dreem_rows = <<>>
    /\ dreem_pc = "idle"
CollectIdle ==
    /\ vitals_files = <<>>
    /\ file_pos = 0
    /\ collected = <<>>
    /\ collect_pc = "idle"
EntryIdle ==
    /\ stage_rows = <<>>
    /\ entry_duration = 0
    /\ entry_levels = <<>>
    /\ entry_pc = "idle"
ZoneIdle ==
    /\ zone = <<>>
    /\ zone_offset = 0
    /\ zone_pc = "idle"
RegistryIdle ==
    /\ registry = <<>>
    /\ defined = <<>>
    /\ raised = FALSE
OutputIdle ==
    /\ TimeIdle /\ DreemIdle /\ CollectIdle /\ EntryIdle /\ ZoneIdle
    /\ RegistryIdle
DateIdle ==
    /\ check_date = 0
    /\ start_date = 0
    /\ end_date = 0
    /\ date_valid = "unset"
    /\ vitals_kept = "unset"
    /\ health_kept = "unset"
    /\ entry_valid = "unset"
NestedIdle ==
    /\ nested_data = <<>>
    /\ nested_key = <<>>
    /\ nested_value = <<>>
    /\ nested_result = <<>>
ResolverIdle ==
    /\ sleep_entries = <<>>
    /\ entry_pos = 0
    /\ computed = <<>>
    /\ resolved = <<>>
    /\ resolver_pc = "idle"
ConvertIdle ==
    /\ raw_timestamp = <<>>
    /\ timezone = 0
    /\ use_seconds = TRUE
    /\ converted = <<>>
    /\ convert_pc = "idle"
GlobIdle ==
    /\ input_type = "none"
    /\ date_type = "DAILY"
    /\ glob_start = 0
    /\ glob_end = 0
    /\ glob_date = 0
    /\ patterns = <<>>
    /\ glob_pc = "idle"
TzIdle ==
    /\ utc = <<>>
    /\ local = <<>>
    /\ utc_offset = 0
    /\ tz_offset = 0
    /\ tz_pc = "idle"
FileIdle ==
    /\ file_chunks = <<>>
    /\ files = <<>>
    /\ file_pc = "idle"
BinaryIdle ==
    /\ chunk_records = <<>>
    /\ binary_data = <<>>
    /\ binary_pc = "idle"
HelpersIdle ==
    /\ DateIdle /\ NestedIdle /\ ResolverIdle /\ ConvertIdle
    /\ GlobIdle /\ TzIdle /\ FileIdle /\ BinaryIdle
ChunkIdle ==
    /\ viatom_data = <<>>
    /\ chunk_pc = "idle"
    /\ viatom_chunks = <<>>
    /\ chunks = <<>>
    /\ helpers_pc = "idle"
HypIdle ==
    /\ hyp_data = <<>>
    /\ sleep_stages = <<>>
    /\ hyp_pc = "idle"
EffIdle ==
    /\ csv_rows = <<>>
    /\ duration = 0
    /\ levels_dict = <<>>
    /\ efficiency = 0
    /\ eff_pc = "idle"
VitalsIdle ==
    /\ vitals_data = <<>>
    /\ vitals_key = <<>>
    /\ min_valid = 0
    /\ vitals_pos = 0
    /\ extracted_count = 0
    /\ valid_count = 0
    /\ vitals_out = <<>>
    /\ vitals_pc = "idle"
SleepIdle ==
    /\ sleep_data = <<>>
    /\ required_fields = <<>>
    /\ sleep_pos = 0
    /\ sleep_out = <<>>
    /\ sleep_pc = "idle"

\* next(gen, False): the exhausted generator gives False.
False == [timestamp |-> -1, data |-> -1]

\* prev_timestamp = None
None == -1

\* session_split: int = 15 (minutes)
session_split == 15

\* next(gen, default)
next(gen, pos, default) == IF pos < Len(gen) THEN gen[pos + 1] ELSE default
advance(gen, pos) == IF pos < Len(gen) THEN pos + 1 ELSE pos

\* while spo2.timestamp != bpm.timestamp
timestamps_differ_tolerant(s, b) ==
    s.timestamp - b.timestamp > 5 \/ b.timestamp - s.timestamp > 5
timestamps_differ(s, b) == s.timestamp # b.timestamp

\* (spo2.timestamp > bpm.timestamp) - (spo2.timestamp < bpm.timestamp)
timestamps_of(s, b) ==
    (IF s.timestamp > b.timestamp THEN 1 ELSE 0)
    - (IF s.timestamp < b.timestamp THEN 1 ELSE 0)

\* (sp02.timestamp, sp02.data, bpm.data)
Triple(p) == <<p.spo2.timestamp, p.spo2.data, p.bpm.data>>

\* session.append(...), line 115: the triple joins the session before the
\* gap is tested.  (A variant that defers the append until after the yield.)
session_append_deferred(s, triple) == s
session_append(s, triple) == Append(s, triple)

SyncInit ==
    /\ \E S \in SUBSET Times : spo2_data = SpO2Stream(S)
    /\ \E S \in SUBSET Times : bpm_data = BpmStream(S)
    /\ spo2_pos = 0
    /\ bpm_pos = 0
    /\ spo2 = False
    /\ bpm = False
    /\ counts_bound = FALSE
    /\ spo2_count = 0
    /\ bpm_count = 0
    /\ spo2_entries = 0
    /\ bpm_entries = 0
    /\ sync_pc = "outer"
    /\ pairs = <<>>
    /\ session = <<>>
    /\ prev_timestamp = None
    /\ parse_pc = "running"
    /\ emitted = <<>>

SyncIdle ==
    /\ spo2_data = <<>>
    /\ bpm_data = <<>>
    /\ spo2_pos = 0
    /\ bpm_pos = 0
    /\ spo2 = False
    /\ bpm = False
    /\ counts_bound = FALSE
    /\ spo2_count = 0
    /\ bpm_count = 0
    /\ spo2_entries = 0
    /\ bpm_entries = 0
    /\ sync_pc = "idle"
    /\ pairs = <<>>
    /\ session = <<>>
    /\ prev_timestamp = None
    /\ parse_pc = "idle"
    /\ emitted = <<>>

(***************************************************************************)
(* sync_timestamps, lines 55-58: pull one sample from each stream; stop    *)
(* when either is exhausted.  The generator's return ends the for loop of  *)
(* parse_sleep_health_data, which then returns too.                        *)
(***************************************************************************)
Pull ==
    /\ sync_pc = "outer"
    /\ parse_pc = "running"
    /\ LET s == next(spo2_data, spo2_pos, False)
           b == next(bpm_data, bpm_pos, False)
       IN /\ spo2' = s
          /\ bpm' = b
          /\ spo2_pos' = advance(spo2_data, spo2_pos)
          /\ bpm_pos' = advance(bpm_data, bpm_pos)
          /\ IF s = False \/ b = False
             THEN sync_pc' = "done" /\ parse_pc' = "done"
             ELSE sync_pc' = "inner" /\ parse_pc' = parse_pc
    /\ UNCHANGED <<spo2_data, bpm_data, counts_bound, spo2_count, bpm_count,
                   spo2_entries, bpm_entries, pairs, session, prev_timestamp,
                   emitted>>
    /\ UNCHANGED notSync

(***************************************************************************)
(* sync_timestamps, lines 59-71: one turn of the inner while loop.         *)
(* advance_spo2 / advance_bpm give the old sample back when the stream is  *)
(* exhausted, and an unchanged Vitals makes the generator return.          *)
(***************************************************************************)
Advance ==
    /\ sync_pc = "inner"
    /\ timestamps_differ(spo2, bpm)
    /\ LET of == timestamps_of(spo2, bpm)
           s == IF of = -1 THEN next(spo2_data, spo2_pos, spo2) ELSE spo2
           b == IF of = 1 THEN next(bpm_data, bpm_pos, bpm) ELSE bpm
       IN /\ counts_bound' = TRUE
          /\ spo2_count' = IF of > 0 THEN 1 ELSE 0
          /\ bpm_count' = IF of < 0 THEN 1 ELSE 0
          /\ spo2' = s
          /\ bpm' = b
          /\ spo2_pos' = IF of = -1 THEN advance(spo2_data, spo2_pos)
                         ELSE spo2_pos
          /\ bpm_pos' = IF of = 1 THEN advance(bpm_data, bpm_pos) ELSE bpm_pos
          /\ IF <<spo2, bpm>> = <<s, b>>
             THEN sync_pc' = "done" /\ parse_pc' = "done"
             ELSE sync_pc' = "inner" /\ parse_pc' = parse_pc
    /\ UNCHANGED <<spo2_data, bpm_data, spo2_entries, bpm_entries, pairs,
                   session, prev_timestamp, emitted>>
    /\ UNCHANGED notSync

(***************************************************************************)
(* sync_timestamps, lines 59, 72-73: the timestamps agree, the pair is     *)
(* yielded.  parse_sleep_health_data, lines 114-123, 125: the loop body    *)
(* appends the triple, then tests the gap; past the threshold it yields    *)
(* the session list.                                                       *)
(***************************************************************************)
Yield ==
    /\ sync_pc = "inner"
    /\ ~timestamps_differ(spo2, bpm)
    /\ LET p == [spo2 |-> spo2, bpm |-> bpm]
           appended == session_append(session, Triple(p))
       IN /\ pairs' = Append(pairs, p)
          /\ session' = appended
          /\ IF prev_timestamp # None
                /\ spo2.timestamp - prev_timestamp > session_split
             THEN /\ emitted' = Append(emitted, appended)
                  /\ parse_pc' = "yielded"
                  /\ prev_timestamp' = prev_timestamp
             ELSE /\ emitted' = emitted
                  /\ parse_pc' = "running"
                  /\ prev_timestamp' = spo2.timestamp
    /\ sync_pc' = "yielded"
    /\ UNCHANGED <<spo2_data, bpm_data, spo2_pos, bpm_pos, spo2, bpm,
                   counts_bound, spo2_count, bpm_count, spo2_entries,
                   bpm_entries>>
    /\ UNCHANGED notSync

(***************************************************************************)
(* parse_sleep_health_data, lines 124-125: resumed after yielding a        *)
(* session, it clears the list and records the timestamp.                  *)
(***************************************************************************)
SessionResume ==
    /\ parse_pc = "yielded"
    /\ session' = <<>>
    /\ prev_timestamp' = spo2.timestamp
    /\ parse_pc' = "running"
    /\ UNCHANGED <<syncVars, emitted>>
    /\ UNCHANGED notSync

(***************************************************************************)
(* sync_timestamps, lines 74-81: resumed after the yield.  spo2_count and  *)
(* bpm_count are assigned only inside the inner loop: read before it ever  *)
(* ran, they raise UnboundLocalError, which propagates through             *)
(* parse_sleep_health_data.                                                *)
(***************************************************************************)
SyncResume ==
    /\ sync_pc = "yielded"
    /\ parse_pc = "running"
    /\ IF counts_bound
       THEN /\ spo2_entries' = spo2_entries + spo2_count + 1
            /\ bpm_entries' = bpm_entries + bpm_count + 1
            /\ sync_pc' = "outer"
            /\ parse_pc' = parse_pc
       ELSE /\ sync_pc' = "error"
            /\ parse_pc' = "error"
            /\ UNCHANGED <<spo2_entries, bpm_entries>>
    /\ UNCHANGED <<spo2_data, bpm_data, spo2_pos, bpm_pos, spo2, bpm,
                   counts_bound, spo2_count, bpm_count, pairs, session,
                   prev_timestamp, emitted>>
    /\ UNCHANGED notSync

Init ==
    /\ SyncInit /\ ChunkIdle /\ HypIdle /\ EffIdle /\ VitalsIdle /\ SleepIdle
    /\ HelpersIdle
    /\ OutputIdle

Next == Pull \/ Advance \/ Yield \/ SessionResume \/ SyncResume

Spec == Init /\ [][Next]_vars

(***************************************************************************)
(* chunk_viatom_data.                                                      *)
(***************************************************************************)
\* chunk_size: int = 4095
chunk_size == 4095

SessionLens == (0..MaxShort) \cup {chunk_size - 1, chunk_size, chunk_size + 1,
                                   2 * chunk_size + 1}

\* A session of n triples, one per minute.
SessionOf(n) == [i \in 1..n |-> <<i, 95, 60>>]

ViatomInputs ==
    UNION {[1..n -> {SessionOf(k) : k \in SessionLens}] : n \in 0..MaxSessions}

Min(a, b) == IF a <= b THEN a ELSE b

\* [session[i : i + chunk_size] for i in range(0, len(session), chunk_size)]
RECURSIVE session_slices(_, _, _)
session_slices(sess, i, size) ==
    IF i >= Len(sess) THEN <<>>
    ELSE <<SubSeq(sess, i + 1, Min(i + size, Len(sess)))>>
         \o session_slices(sess, i + size, size)

\* helpers.chunk_viatom_data: the list comprehension over all sessions.
helpers_chunk_viatom_data(data, size) ==
    Concat([k \in 1..Len(data) |-> session_slices(data[k], 0, size)])

ChunkInit ==
    /\ viatom_data \in ViatomInputs
    /\ chunk_pc = "running"
    /\ viatom_chunks = <<>>
    /\ chunks = <<>>
    /\ helpers_pc = "start"

(***************************************************************************)
(* process_data.chunk_viatom_data, lines 65-68: the generator's first      *)
(* resumption.  With no session the for loop ends and the generator        *)
(* returns.  With a session, the log message evaluates                     *)
(* len(session // chunk_size): a list floor-divided by an int raises       *)
(* TypeError before the slicing loop of lines 69-70 is ever entered, so    *)
(* no chunk is yielded.                                                    *)
(***************************************************************************)
ChunkViatomData ==
    /\ chunk_pc = "running"
    /\ chunk_pc' = IF Len(viatom_data) = 0 THEN "done" ELSE "error"
    /\ UNCHANGED <<viatom_data, viatom_chunks, chunks, helpers_pc>>
    /\ UNCHANGED notChunk

(***************************************************************************)
(* helpers.chunk_viatom_data, lines 93-102.                                *)
(***************************************************************************)
HelpersChunkViatomData ==
    /\ helpers_pc = "start"
    /\ chunks' = helpers_chunk_viatom_data(viatom_data, chunk_size)
    /\ helpers_pc' = "done"
    /\ UNCHANGED <<viatom_data, chunk_pc, viatom_chunks>>
    /\ UNCHANGED notChunk

InitChunk ==
    /\ SyncIdle /\ ChunkInit /\ HypIdle /\ EffIdle /\ VitalsIdle /\ SleepIdle
    /\ HelpersIdle
    /\ OutputIdle

NextChunk == ChunkViatomData \/ HelpersChunkViatomData

SpecChunk == InitChunk /\ [][NextChunk]_vars

(***************************************************************************)
(* generate_hypnogram.                                                     *)
(***************************************************************************)
\* levels = {"wake": "WAKE", "rem": "REM", "light": "Light", "deep": "Deep"}
levels == [l \in {"wake", "rem", "light", "deep"} |->
              CASE l = "wake" -> "WAKE"
                [] l = "rem" -> "REM"
                [] l = "light" -> "Light"
                [] l = "deep" -> "Deep"]

\* The stage names of the inputs: the four known ones and one that is not.
StageNames == DOMAIN levels \cup {"restless"}

StageSeconds == {0, 29, 30, 95}

\* {"level": ..., "seconds": ...} (the "dateTime" item is not read)
StageRecords == [level : StageNames, seconds : StageSeconds]

\* [label] * n
Repeat(label, n) == [i \in 1..n |-> label]

\* The list comprehension handed to extend: one list of labels per record
\* with a known level.
stage_lists(data) ==
    LET known == SelectSeq(data, LAMBDA stage : stage.level \in DOMAIN levels)
    IN [i \in 1..Len(known) |->
           Repeat(levels[known[i].level], known[i].seconds \div 30)]

\* sleep_stages = []; sleep_stages.extend(<generator of lists>): each list
\* the generator gives becomes ONE element of sleep_stages.
generate_hypnogram(data) == <<>> \o stage_lists(data)

HypInit ==
    /\ hyp_data \in UNION {[1..n -> StageRecords] : n \in 0..MaxStages}
    /\ sleep_stages = <<>>
    /\ hyp_pc = "start"

GenerateHypnogram ==
    /\ hyp_pc = "start"
    /\ sleep_stages' = generate_hypnogram(hyp_data)
    /\ hyp_pc' = "done"
    /\ UNCHANGED hyp_data
    /\ UNCHANGED notHyp

InitHypnogram ==
    /\ SyncIdle /\ ChunkIdle /\ HypInit /\ EffIdle /\ VitalsIdle /\ SleepIdle
    /\ HelpersIdle
    /\ OutputIdle

NextHypnogram == GenerateHypnogram

SpecHypnogram == InitHypnogram /\ [][NextHypnogram]_vars

(***************************************************************************)
(* process_sleep_data.                                                     *)
(***************************************************************************)
RowSeconds == {60, 1440, 27360}

\* A CSV row {"Date", "Duration in seconds", "Sleep stage"}; the duration
\* column is held as the integer int() reads from it.
CsvRows == [Date : {0}, Seconds : RowSeconds, Stage : StageNames]

Durations == {0, 1440, 28800}

RECURSIVE stage_time(_, _)
\* stage_data[stage]["time"]
stage_time(rows, stage) ==
    IF rows = <<>> THEN 0
    ELSE (IF Head(rows).Stage = stage THEN Head(rows).Seconds ELSE 0)
         + stage_time(Tail(rows), stage)

\* stage_data[stage]["count"]
stage_count(rows, stage) ==
    Len(SelectSeq(rows, LAMBDA row : row.Stage = stage))

\* levels_dict, lines 50-71
sleep_levels(rows) ==
    [summary |-> [stage \in DOMAIN levels |->
                     [count |-> stage_count(rows, stage),
                      minutes |-> stage_time(rows, stage) \div 60]],
     data |-> [i \in 1..Len(rows) |->
                  [dateTime |-> rows[i].Date, level |-> rows[i].Stage,
                   seconds |-> rows[i].Seconds]]]

\* int(stage_data["wake"]["time"] / duration * 100), for duration # 0.  The
\* quotient is exact for every input of the model.
sleep_efficiency(rows, d) == (stage_time(rows, "wake") * 100) \div d

EffInit ==
    /\ csv_rows \in UNION {[1..n -> CsvRows] : n \in 0..MaxRows}
    /\ duration \in Durations
    /\ levels_dict = <<>>
    /\ efficiency = 0
    /\ eff_pc = "start"

(***************************************************************************)
(* process_sleep_data, lines 43-74; dividing by a zero duration raises     *)
(* ZeroDivisionError.                                                      *)
(***************************************************************************)
ProcessSleepData ==
    /\ eff_pc = "start"
    /\ IF duration = 0
       THEN /\ eff_pc' = "error"
            /\ UNCHANGED <<levels_dict, efficiency>>
       ELSE /\ levels_dict' = sleep_levels(csv_rows)
            /\ efficiency' = sleep_efficiency(csv_rows, duration)
            /\ eff_pc' = "done"
    /\ UNCHANGED <<csv_rows, duration>>
    /\ UNCHANGED notEff

InitEfficiency ==
    /\ SyncIdle /\ ChunkIdle /\ HypIdle /\ EffInit /\ VitalsIdle /\ SleepIdle
    /\ HelpersIdle
    /\ OutputIdle

NextEfficiency == ProcessSleepData

SpecEfficiency == InitEfficiency /\ [][NextEfficiency]_vars

(***************************************************************************)
(* Raw records: nested mappings with str keys.  A value is an int, a str   *)
(* or a mapping; dict.keys() is a value of its own kind.                   *)
(***************************************************************************)
IntNode(v) == [kind |-> "int", val |-> v]
StrNode(str) == [kind |-> "str", val |-> str]
DictNode(items) == [kind |-> "dict", items |-> items]
KeysNode(keys) == [kind |-> "keys", keys |-> keys]

\* for key in <str>: the one-character strings of a str
Chars(str) == [i \in 1..Len(str) |-> <<str[i]>>]

RECURSIVE Split(_, _)
\* str.split(sep), sep one character
Split(str, sep) ==
    IF \A i \in 1..Len(str) : str[i] # sep THEN <<str>>
    ELSE LET i == CHOOSE j \in 1..Len(str) :
                      str[j] = sep /\ \A k \in 1..(j - 1) : str[k] # sep
         IN <<SubSeq(str, 1, i - 1)>> \o Split(SubSeq(str, i + 1, Len(str)), sep)

RECURSIVE descend(_, _)
\* for key in key_path: try: data = data[key] except (KeyError, TypeError)
descend(data, keys) ==
    IF keys = <<>> THEN data
    ELSE descend(IF data.kind = "dict" /\ Head(keys) \in DOMAIN data.items
                 THEN data.items[Head(keys)]
                 ELSE data,
                 Tail(keys))

\* FitbitExtractor.get_nested_value, key_path a str
get_nested_value(data, key_path) ==
    LET keys == IF "." \in Range(key_path) THEN Split(key_path, ".")
                ELSE Chars(key_path)
        found == descend(data, keys)
    IN IF found.kind = "dict" THEN KeysNode(DOMAIN found.items) ELSE found

(***************************************************************************)
(* FitbitExtractor.extract_vitals_data.                                    *)
(***************************************************************************)
\* The key paths of the two source layouts: "v.b" into a nested entry (as
\* "value.bpm") and "hr", a flat column name (as "Heart rate").
NestedKey == <<"v", ".", "b">>
FlatKey == <<"h", "r">>
\* config.vitals["timestamp"]
TimestampKey == <<"t", "s">>

VitalValues == {55, 61, 75}
MinValids == {61, 75}

\* The i-th entry of a file, holding value v where key_path addresses it.
VitalsEntry(key_path, i, v) ==
    IF key_path = NestedKey
    THEN DictNode((TimestampKey :> IntNode(i))
                  @@ (<<"v">> :> DictNode(<<"b">> :> IntNode(v))))
    ELSE DictNode((TimestampKey :> IntNode(i)) @@ (FlatKey :> IntNode(v)))

\* The value a sample carries under the configured key path.
SampleValue(entry, key_path) ==
    IF key_path = NestedKey THEN entry.items[<<"v">>].items[<<"b">>].val
    ELSE entry.items[FlatKey].val

VitalsInit ==
    /\ vitals_key \in {NestedKey, FlatKey}
    /\ min_valid \in MinValids
    /\ \E n \in 0..MaxEntries : \E vs \in [1..n -> VitalValues] :
           vitals_data = [i \in 1..n |-> VitalsEntry(vitals_key, i, vs[i])]
    /\ vitals_pos = 0
    /\ extracted_count = 0
    /\ valid_count = 0
    /\ vitals_out = <<>>
    /\ vitals_pc = "running"

(***************************************************************************)
(* extract_vitals_data, lines 77-92: one entry.  value >= min_valid        *)
(* raises TypeError unless value is an int.  A sample yielded is recorded  *)
(* by the raw timestamp of its entry and its value.                        *)
(***************************************************************************)
ExtractVitalsEntry ==
    /\ vitals_pc = "running"
    /\ vitals_pos < Len(vitals_data)
    /\ LET entry == vitals_data[vitals_pos + 1]
           value == get_nested_value(entry, vitals_key)
       IN /\ vitals_pos' = vitals_pos + 1
          /\ extracted_count' = extracted_count + 1
          /\ IF value.kind # "int"
             THEN /\ vitals_pc' = "error"
                  /\ UNCHANGED <<valid_count, vitals_out>>
             ELSE IF value.val >= min_valid
             THEN /\ valid_count' = valid_count + 1
                  /\ vitals_out' =
                         Append(vitals_out,
                                [timestamp |-> entry.items[TimestampKey].val,
                                 data |-> value.val])
                  /\ vitals_pc' = vitals_pc
             ELSE UNCHANGED <<valid_count, vitals_out, vitals_pc>>
    /\ UNCHANGED <<vitals_data, vitals_key, min_valid>>
    /\ UNCHANGED notVitals

\* extract_vitals_data, lines 94-97: the entries are exhausted.
ExtractVitalsEnd ==
    /\ vitals_pc = "running"
    /\ vitals_pos = Len(vitals_data)
    /\ vitals_pc' = "done"
    /\ UNCHANGED <<vitals_data, vitals_key, min_valid, vitals_pos,
                   extracted_count, valid_count, vitals_out>>
    /\ UNCHANGED notVitals

InitVitals ==
    /\ SyncIdle /\ ChunkIdle /\ HypIdle /\ EffIdle /\ VitalsInit /\ SleepIdle
    /\ HelpersIdle
    /\ OutputIdle

NextVitals == ExtractVitalsEntry \/ ExtractVitalsEnd

SpecVitals == InitVitals /\ [][NextVitals]_vars

(***************************************************************************)
(* FitbitExtractor.is_valid_sleep_entry and extract_sleep_data.            *)
(***************************************************************************)
\* The keys of a raw sleep record: "d" the date (config.vitals["timestamp"]
\* is the key is_valid_sleep_entry reads it by), "r" a field that may be
\* required, "s" the stage collection (config sleep_stages).
DateKey == <<"d">>
RequiredKey == <<"r">>
StagesKey == <<"s">>

\* start_date, end_date
DateRange == [start_date |-> 1, end_date |-> MaxDay - 1]

\* What a record may hold under "r": an int, a str that names one of the
\* record's keys, a str that names none, or a mapping.
RequiredValues ==
    {IntNode(7), StrNode(<<"s">>), StrNode(<<"z">>),
     DictNode(<<"k">> :> IntNode(1))}

StageCollections ==
    {DictNode((<<"l", "i", "g", "h", "t">> :> IntNode(1))
              @@ (<<"d", "e", "e", "p">> :> IntNode(1))),
     DictNode(<<"d", "e", "e", "p">> :> IntNode(1))}

\* Raw records: the date and the required field may be missing.
SleepRecords ==
    {DictNode(StagesKey :> st) : st \in StageCollections}
    \cup {DictNode((StagesKey :> st) @@ (DateKey :> IntNode(d))) :
              st \in StageCollections, d \in 0..MaxDay}
    \cup {DictNode((StagesKey :> st) @@ (RequiredKey :> r)) :
              st \in StageCollections, r \in RequiredValues}
    \cup {DictNode((StagesKey :> st) @@ (DateKey :> IntNode(d))
                   @@ (RequiredKey :> r)) :
              st \in StageCollections, d \in 0..MaxDay, r \in RequiredValues}

\* x not in entry, entry a dict: the hash of x is taken first, and
\* dict_keys is unhashable.
not_in_entry(value, entry) ==
    CASE value.kind = "keys" -> "TypeError"
      [] value.kind = "dict" -> "TypeError"
      [] value.kind = "str" ->
            IF value.val \in DOMAIN entry.items THEN "False" ELSE "True"
      [] value.kind = "int" -> "True"

RECURSIVE any_field_missing(_, _)
\* any(self.get_nested_value(entry, field) not in entry for field in ...)
any_field_missing(entry, fields) ==
    IF fields = <<>> THEN "False"
    ELSE LET r == not_in_entry(get_nested_value(entry, Head(fields)), entry)
         IN IF r = "False" THEN any_field_missing(entry, Tail(fields)) ELSE r

\* is_valid_date(timestamp=..., start_date=..., end_date=...): the function
\* is defined as is_valid_date(date, start_date, end_date), so the call
\* raises TypeError (unexpected keyword argument) whatever the date.
is_valid_date_call(date, range) == "TypeError"

\* is_valid_sleep_entry, lines 48-64: "True", "False", or the exception.
is_valid_sleep_entry(entry, fields, range) ==
    LET missing == any_field_missing(entry, fields)
    IN IF missing = "True" THEN "False"
       ELSE IF missing = "TypeError" THEN "TypeError"
       ELSE IF DateKey \notin DOMAIN entry.items THEN "KeyError"
       ELSE LET valid_date ==
                    is_valid_date_call(entry.items[DateKey].val, range)
                light_exists ==
                    <<"l", "i", "g", "h", "t">>
                        \in get_nested_value(entry, StagesKey).keys
            IN IF valid_date \notin {"True", "False"} THEN valid_date
               ELSE IF valid_date = "True" /\ light_exists THEN "True"
               ELSE "False"

SleepInit ==
    /\ sleep_data \in UNION {[1..n -> SleepRecords] : n \in 0..MaxSleep}
    /\ required_fields \in {<<>>, <<RequiredKey>>}
    /\ sleep_pos = 0
    /\ sleep_out = <<>>
    /\ sleep_pc = "running"

(***************************************************************************)
(* extract_sleep_data, lines 106-112: one record.  An exception raised by  *)
(* is_valid_sleep_entry ends the generator.                                *)
(***************************************************************************)
ExtractSleepEntry ==
    /\ sleep_pc = "running"
    /\ sleep_pos < Len(sleep_data)
    /\ LET valid == is_valid_sleep_entry(sleep_data[sleep_pos + 1],
                                         required_fields, DateRange)
       IN /\ sleep_pos' = sleep_pos + 1
          /\ sleep_out' = IF valid = "True"
                          THEN Append(sleep_out, sleep_pos + 1)
                          ELSE sleep_out
          /\ sleep_pc' = IF valid \in {"True", "False"} THEN sleep_pc
                         ELSE "error"
    /\ UNCHANGED <<sleep_data, required_fields>>
    /\ UNCHANGED notSleep

\* extract_sleep_data: the records are exhausted.
ExtractSleepEnd ==
    /\ sleep_pc = "running"
    /\ sleep_pos = Len(sleep_data)
    /\ sleep_pc' = "done"
    /\ UNCHANGED <<sleep_data, required_fields, sleep_pos, sleep_out>>
    /\ UNCHANGED notSleep

InitSleep ==
    /\ SyncIdle /\ ChunkIdle /\ HypIdle /\ EffIdle /\ VitalsIdle /\ SleepInit
    /\ HelpersIdle
    /\ OutputIdle

NextSleep == ExtractSleepEntry \/ ExtractSleepEnd

SpecSleep == InitSleep /\ [][NextSleep]_vars

(***************************************************************************)
(* Claims about sync_timestamps and parse_sleep_health_data.               *)
(***************************************************************************)
Triples(ps) == [i \in 1..Len(ps) |-> Triple(ps[i])]

\* The pairs a complete merge gives: one per common timestamp, increasing.
ExpectedPairs ==
    LET ts == SortedSeq(TimestampsOf(spo2_data) \cap TimestampsOf(bpm_data))
    IN [i \in 1..Len(ts) |->
           [spo2 |-> VitalsData(ts[i], SpO2Value(ts[i])),
            bpm |-> VitalsData(ts[i], BpmValue(ts[i]))]]

\* C1: every pair sync_timestamps has emitted holds one SpO2 sample and one
\* BPM sample with equal timestamps, each an unchanged item of its own input
\* stream; so no pair exists for a timestamp missing from either stream.
C1_PairsAligned ==
    \A i \in 1..Len(pairs) :
        /\ pairs[i].spo2.timestamp = pairs[i].bpm.timestamp
        /\ pairs[i].spo2 \in Range(spo2_data)
        /\ pairs[i].bpm \in Range(bpm_data)

\* C1 witness: a pair was emitted right after an SpO2 sample five minutes
\* earlier, absent from the BPM stream, was passed over.
C1_Witness ==
    /\ Len(pairs) >= 1
    /\ \E t \in TimestampsOf(spo2_data) \ TimestampsOf(bpm_data) :
           t + 5 = pairs[1].spo2.timestamp

\* C2: for strictly increasing streams sync_timestamps raises no error and,
\* once it has returned, has emitted exactly one pair per common timestamp,
\* in increasing order.
C2_SyncComplete ==
    /\ sync_pc # "error"
    /\ sync_pc = "done" => pairs = ExpectedPairs

\* C3: when the latest aligned pair came more than session_split minutes
\* after the one before it, the session yielded at that moment does not hold
\* that pair, and the session in progress afterwards is that pair alone.
C3_SplitStartsNewSession ==
    LET n == Len(pairs) IN
    (/\ sync_pc = "yielded"
     /\ n >= 2
     /\ pairs[n].spo2.timestamp - pairs[n - 1].spo2.timestamp > session_split)
    => /\ parse_pc = "yielded" => Triple(pairs[n]) \notin Range(Last(emitted))
       /\ parse_pc = "running" => session = <<Triple(pairs[n])>>

\* C4: in every emitted session the timestamps strictly increase and no two
\* consecutive triples are more than session_split minutes apart.
C4_SessionGaps ==
    \A k \in 1..Len(emitted) :
        \A i \in 1..(Len(emitted[k]) - 1) :
            /\ emitted[k][i][1] < emitted[k][i + 1][1]
            /\ emitted[k][i + 1][1] - emitted[k][i][1] <= session_split

\* C5: once parse_sleep_health_data has returned, the emitted sessions put
\* end to end are the whole sequence of aligned pairs.
C5_AllPairsEmitted ==
    parse_pc = "done" => Concat(emitted) = Triples(pairs)

(***************************************************************************)
(* Claims about chunk_viatom_data.                                         *)
(***************************************************************************)
\* Whether cs splits the sessions, one after the other, into consecutive
\* non-empty chunks of at most size triples.
RECURSIVE SplitsSessions(_, _, _)
SplitsSessions(sess, cs, size) ==
    IF sess = <<>> THEN cs = <<>>
    ELSE IF Head(sess) = <<>> THEN SplitsSessions(Tail(sess), cs, size)
    ELSE /\ cs # <<>>
         /\ Len(Head(cs)) \in 1..Min(size, Len(Head(sess)))
         /\ Head(cs) = SubSeq(Head(sess), 1, Len(Head(cs)))
         /\ SplitsSessions(
                IF Len(Head(cs)) = Len(Head(sess)) THEN Tail(sess)
                ELSE <<SubSeq(Head(sess), Len(Head(cs)) + 1, Len(Head(sess)))>>
                     \o Tail(sess),
                Tail(cs), size)

\* C6: chunk_viatom_data ends without error, and its chunks are non-empty,
\* at most 4095 triples long, and put end to end give back every session.
C6_ChunksReconstruct ==
    chunk_pc # "running"
    => /\ chunk_pc = "done"
       /\ SplitsSessions(viatom_data, viatom_chunks, chunk_size)

\* The same statement about the list helpers.chunk_viatom_data returns.
HelpersChunksReconstruct ==
    helpers_pc = "done" => SplitsSessions(viatom_data, chunks, chunk_size)

(***************************************************************************)
(* Claims about generate_hypnogram and process_sleep_data.                 *)
(***************************************************************************)
RECURSIVE SumEpochs(_)
\* sum(seconds // 30 for each known-stage record)
SumEpochs(data) ==
    IF data = <<>> THEN 0
    ELSE (IF Head(data).level \in DOMAIN levels
          THEN Head(data).seconds \div 30 ELSE 0)
         + SumEpochs(Tail(data))

\* C7: the hypnogram generate_hypnogram returns has one stage-label token
\* per whole 30 seconds of every known-stage record: its length is the sum
\* of seconds // 30 over those records (3 for one deep record of 95 s).
C7_HypnogramLength ==
    hyp_pc = "done" => Len(sleep_stages) = SumEpochs(hyp_data)

\* C8: the efficiency process_sleep_data returns is
\* 100 * (1 - wake_seconds / duration_seconds) rounded down, within 0..100
\* (95 for 28800 s of which 1440 s awake).
C8_SleepEfficiency ==
    eff_pc = "done"
    => /\ efficiency = (100 * (duration - stage_time(csv_rows, "wake")))
                           \div duration
       /\ efficiency \in 0..100

(***************************************************************************)
(* Claims about extract_vitals_data.                                       *)
(***************************************************************************)
\* The samples of the input whose value is at least min_valid, in order.
ValidSamples ==
    LET valid == SelectSeq(vitals_data,
                           LAMBDA e : SampleValue(e, vitals_key) >= min_valid)
    IN [i \in 1..Len(valid) |->
           [timestamp |-> valid[i].items[TimestampKey].val,
            data |-> SampleValue(valid[i], vitals_key)]]

\* C9: extract_vitals_data raises no error and, once exhausted, has emitted
\* exactly the input samples whose value is at least min_valid, in input
\* order.
C9_VitalsFiltered ==
    /\ vitals_pc # "error"
    /\ vitals_pc = "done" => vitals_out = ValidSamples

\* The same statement for the runs whose key path is dotted.
NestedVitalsFiltered ==
    vitals_key = NestedKey
    => /\ vitals_pc # "error"
       /\ vitals_pc = "done" => vitals_out = ValidSamples

(***************************************************************************)
(* Claims about extract_sleep_data.                                        *)
(***************************************************************************)
\* The three checks of the specification, read off the record itself.
FieldsPresent(entry) ==
    \A i \in 1..Len(required_fields) : required_fields[i] \in DOMAIN entry.items
DateInRange(entry) ==
    /\ DateKey \in DOMAIN entry.items
    /\ DateRange.start_date <= entry.items[DateKey].val
    /\ entry.items[DateKey].val <= DateRange.end_date
HasLightStage(entry) ==
    <<"l", "i", "g", "h", "t">> \in DOMAIN entry.items[StagesKey].items
PassesChecks(entry) ==
    FieldsPresent(entry) /\ DateInRange(entry) /\ HasLightStage(entry)

\* C10: extract_sleep_data raises no error, and of the records it has
\* consumed it has yielded an entry for exactly those that have every
\* required field, a date in the range and a light stage.
C10_SleepEntriesValidated ==
    /\ sleep_pc # "error"
    /\ \A i \in 1..sleep_pos :
           (i \in Range(sleep_out)) <=> PassesChecks(sleep_data[i])

(***************************************************************************)
(* The date-range checks: is_valid_date and its callers.  Dates are day    *)
(* numbers.                                                                *)
(***************************************************************************)
CoreIdle ==
    SyncIdle /\ ChunkIdle /\ HypIdle /\ EffIdle /\ VitalsIdle /\ SleepIdle

\* A Python bool, as the outcome of a call that may also raise.
PyBool(b) == IF b THEN "True" ELSE "False"

\* time_helpers.is_valid_date: start_date <= date <= end_date
is_valid_date(date, start, end) == start <= date /\ date <= end

\* extract.extract_sleep_health_data's condition on a sample:
\* start_date < timestamp.date() < end_date
health_date_filter(date, start, end) == start < date /\ date < end

\* A raw sleep record dated d that holds a light stage.
DatedSleepRecord(d) ==
    DictNode((StagesKey :> DictNode(<<"l", "i", "g", "h", "t">> :> IntNode(1)))
             @@ (DateKey :> IntNode(d)))

DateInit ==
    /\ check_date \in 0..MaxDate
    /\ start_date \in 1..(MaxDate - 1)
    /\ end_date \in start_date..(MaxDate - 1)
    /\ date_valid = "unset"
    /\ vitals_kept = "unset"
    /\ health_kept = "unset"
    /\ entry_valid = "unset"

\* is_valid_date(date, start_date, end_date), called by position
IsValidDate ==
    /\ date_valid = "unset"
    /\ date_valid' = PyBool(is_valid_date(check_date, start_date, end_date))
    /\ UNCHANGED <<check_date, start_date, end_date, vitals_kept, health_kept,
                   entry_valid>>
    /\ UNCHANGED notDate

\* collect_vitals_data: a sample extract_vitals_data has yielded is kept
\* if is_valid_date(timestamp.date(), start_date, end_date)
CollectVitalsData ==
    /\ vitals_kept = "unset"
    /\ vitals_kept' = PyBool(is_valid_date(check_date, start_date, end_date))
    /\ UNCHANGED <<check_date, start_date, end_date, date_valid, health_kept,
                   entry_valid>>
    /\ UNCHANGED notDate

\* extract_sleep_health_data: the condition of the two dict comprehensions
ExtractSleepHealthData ==
    /\ health_kept = "unset"
    /\ health_kept' =
           PyBool(health_date_filter(check_date, start_date, end_date))
    /\ UNCHANGED <<check_date, start_date, end_date, date_valid, vitals_kept,
                   entry_valid>>
    /\ UNCHANGED notDate

\* FitbitExtractor.is_valid_sleep_entry on a record so dated, no field
\* required
IsValidSleepEntry ==
    /\ entry_valid = "unset"
    /\ entry_valid' =
           is_valid_sleep_entry(DatedSleepRecord(check_date), <<>>,
                                [start_date |-> start_date,
                                 end_date |-> end_date])
    /\ UNCHANGED <<check_date, start_date, end_date, date_valid, vitals_kept,
                   health_kept>>
    /\ UNCHANGED notDate

InitDates ==
    /\ CoreIdle /\ DateInit /\ NestedIdle /\ ResolverIdle /\ ConvertIdle
    /\ GlobIdle /\ TzIdle /\ FileIdle /\ BinaryIdle
    /\ OutputIdle

NextDates ==
    IsValidDate \/ CollectVitalsData \/ ExtractSleepHealthData
        \/ IsValidSleepEntry

SpecDates == InitDates /\ [][NextDates]_vars

(***************************************************************************)
(* Claims about the date-range checks.                                     *)
(***************************************************************************)
\* Whether the checked date lies in [start_date, end_date], bounds included.
InRangeInclusive == PyBool(start_date <= check_date /\ check_date <= end_date)

\* C11: the date-range check includes both bounds: every check that has
\* been made of a vitals sample or of a sleep record (which holds a light
\* stage and lacks no required field) accepts it if and only if
\* start_date <= date <= end_date.
C11_DateRangeInclusive ==
    /\ date_valid # "unset" => date_valid = InRangeInclusive
    /\ vitals_kept # "unset" => vitals_kept = InRangeInclusive
    /\ health_kept # "unset" => health_kept = InRangeInclusive
    /\ entry_valid # "unset" => entry_valid = InRangeInclusive

\* is_valid_date and collect_vitals_data alone include both bounds.
IsValidDateInclusive ==
    /\ date_valid # "unset" => date_valid = InRangeInclusive
    /\ vitals_kept # "unset" => vitals_kept = InRangeInclusive

\* A sample dated start_date or end_date is rejected by
\* extract_sleep_health_data.
HealthFilterExcludesBounds ==
    health_kept # "unset" /\ check_date \in {start_date, end_date}
        => health_kept = "False"

(***************************************************************************)
(* get_nested_value: the method of FitbitExtractor and the function of     *)
(* extractor'.py.                                                          *)
(***************************************************************************)
RECURSIVE SplitOn(_, _)
\* str.split(sep), sep a str of one or more characters
SplitOn(str, sep) ==
    LET n == Len(sep)
        at(i) == i + n - 1 <= Len(str) /\ SubSeq(str, i, i + n - 1) = sep
    IN IF \A i \in 1..Len(str) : ~at(i) THEN <<str>>
       ELSE LET i == CHOOSE j \in 1..Len(str) :
                         at(j) /\ \A k \in 1..(j - 1) : ~at(k)
            IN <<SubSeq(str, 1, i - 1)>>
               \o SplitOn(SubSeq(str, i + n, Len(str)), sep)

\* extractor'.get_nested_value, key_path a str
legacy_get_nested_value(data, path) ==
    LET keys ==
            IF "[" \in Range(path) /\ "]" \in Range(path)
            THEN SplitOn(SubSeq(path, 2, Len(path) - 1), <<"]", "[">>)
            ELSE IF "." \in Range(path) THEN SplitOn(path, <<".">>)
            ELSE Chars(path)
        found == descend(data, keys)
    IN IF found.kind = "dict" THEN KeysNode(DOMAIN found.items) ELSE found

\* Records: "a" may hold an int or a mapping with the key "b" or "c";
\* "ab" (a column name of two characters) and "b" may hold an int.
NestedFields ==
    {<<>>}
    \cup {<<"a">> :> IntNode(v) : v \in {1, 2}}
    \cup {<<"a">> :> DictNode(k :> IntNode(v)) :
              k \in {<<"b">>, <<"c">>}, v \in {3, 4}}
FlatFields ==
    {<<>>} \cup {<<"a", "b">> :> IntNode(v) : v \in {5, 6}}
OtherFields ==
    {<<>>} \cup {<<"b">> :> IntNode(v) : v \in {7, 8}}
NestedRecords ==
    {DictNode(f @@ g @@ h) :
         f \in NestedFields, g \in FlatFields, h \in OtherFields}

\* Key paths in dot notation, in bracket notation and without either.
KeyPaths ==
    {<<"a", ".", "b">>, <<"a", ".", "x">>, <<"x", ".", "b">>,
     <<"[", "a", "]", "[", "b", "]">>, <<"[", "a", "]", "[", "x", "]">>,
     <<"a", "b">>, <<"x", "y">>, <<"a">>}

Unset == [kind |-> "unset"]

NestedInit ==
    /\ nested_data \in NestedRecords
    /\ nested_key \in KeyPaths
    /\ nested_value = Unset
    /\ nested_result = Unset

\* FitbitExtractor.get_nested_value(data, key_path)
GetNestedValue ==
    /\ nested_value = Unset
    /\ nested_value' = get_nested_value(nested_data, nested_key)
    /\ UNCHANGED <<nested_data, nested_key, nested_result>>
    /\ UNCHANGED notNested

\* extractor'.get_nested_value(data, key_path)
LegacyGetNestedValue ==
    /\ nested_result = Unset
    /\ nested_result' = legacy_get_nested_value(nested_data, nested_key)
    /\ UNCHANGED <<nested_data, nested_key, nested_value>>
    /\ UNCHANGED notNested

InitNested ==
    /\ CoreIdle /\ DateIdle /\ NestedInit /\ ResolverIdle /\ ConvertIdle
    /\ GlobIdle /\ TzIdle /\ FileIdle /\ BinaryIdle
    /\ OutputIdle

NextNested == GetNestedValue \/ LegacyGetNestedValue

SpecNested == InitNested /\ [][NextNested]_vars

(***************************************************************************)
(* Claims about get_nested_value.                                          *)
(***************************************************************************)
\* The segments a key path names: "[a][b]" and "a.b" name a, b; a path
\* with no bracket and no dot names itself.
Segments(path) ==
    IF Head(path) = "[" /\ Last(path) = "]"
    THEN SplitOn(SubSeq(path, 2, Len(path) - 1), <<"]", "[">>)
    ELSE SplitOn(path, <<".">>)

RECURSIVE PathExists(_, _)
PathExists(data, segs) ==
    \/ segs = <<>>
    \/ /\ data.kind = "dict"
       /\ Head(segs) \in DOMAIN data.items
       /\ PathExists(data.items[Head(segs)], Tail(segs))

RECURSIVE NodeAt(_, _)
NodeAt(data, segs) ==
    IF segs = <<>> THEN data ELSE NodeAt(data.items[Head(segs)], Tail(segs))

\* What a lookup that ends on a node returns: the keys of a mapping, the
\* value otherwise.
Returned(node) ==
    IF node.kind = "dict" THEN KeysNode(DOMAIN node.items) ELSE node

RECURSIVE NodesOf(_)
NodesOf(data) ==
    {data} \cup (IF data.kind = "dict"
                 THEN UNION {NodesOf(data.items[k]) : k \in DOMAIN data.items}
                 ELSE {})

NestedResults == {nested_value, nested_result} \ {Unset}

\* C12: when a segment of the key path is missing from the record, the
\* lookup (which never raises) does not return the value or the key set of
\* any node of the record as if it were the field.
C12_MissingPathAbsent ==
    ~PathExists(nested_data, Segments(nested_key))
        => \A r \in NestedResults :
               r \notin {Returned(n) : n \in NodesOf(nested_data)}

\* C13: for a key path whose segments all exist, the lookup returns the
\* value stored at the path, or the key set when the node is a mapping, in
\* dot notation, in bracket notation and for a single segment.
C13_ExistingPathValue ==
    PathExists(nested_data, Segments(nested_key))
        => \A r \in NestedResults :
               r = Returned(NodeAt(nested_data, Segments(nested_key)))

\* In dot notation a path that exists is resolved by both functions, and in
\* bracket notation by the function of extractor'.py.
DottedPathValue ==
    /\ PathExists(nested_data, Segments(nested_key))
    /\ \/ "." \in Range(nested_key)
       \/ "[" \in Range(nested_key) /\ nested_result # Unset
                                    /\ nested_value = Unset
    => \A r \in NestedResults :
           r = Returned(NodeAt(nested_data, Segments(nested_key)))

(***************************************************************************)
(* Resolver and SleepConfig (config.py).  An entry is told apart by one    *)
(* raw value; a derived field is computed from the entry it is given.      *)
(***************************************************************************)
EntryValues == {1, 2, 3}
DerivedKeys == {"duration", "levels"}

\* self.sleep_transformations[key](entry): the value derived from entry
Transform(key, entry) == [key |-> key, from |-> entry]

\* The attributes of a Resolver object: the class attribute _computed and
\* the two methods; it has no __getattr__.
ResolverAttributes == {"_computed", "resolve", "clear"}

\* The attributes normal lookup finds on a SleepConfig: its fields.
SleepConfigFields ==
    {"dir", "glob", "filetype", "keys", "sleep_transformations", "resolver"}

\* Resolver.clear
clear(cache) == <<>>

\* Reading attribute item of a SleepConfig: __getattr__, which resets the
\* resolver for "sleep_transformations", is called only when normal lookup
\* fails; the cache after the read.
getattr_sleep_config(item, cache) ==
    IF item \in SleepConfigFields THEN cache
    ELSE IF item = "sleep_transformations" THEN clear(cache)
    ELSE cache

ResolverInit ==
    /\ sleep_entries \in
           UNION {[1..n -> EntryValues] : n \in 1..MaxResolve}
    /\ entry_pos = 0
    /\ computed = <<>>
    /\ resolved = <<>>
    /\ resolver_pc = "running"

\* extract_sleep_data takes the next entry and reads
\* self.config.sleep.sleep_transformations to build what it yields.
GetSleepTransformations ==
    /\ resolver_pc = "running"
    /\ entry_pos < Len(sleep_entries)
    /\ entry_pos' = entry_pos + 1
    /\ computed' = getattr_sleep_config("sleep_transformations", computed)
    /\ UNCHANGED <<sleep_entries, resolved, resolver_pc>>
    /\ UNCHANGED notResolver

\* Resolver.resolve(entry, key), called by a transformation of the current
\* entry.  On a miss, self.sleep_transformations is looked up on the
\* Resolver, which has no such attribute: AttributeError.
Resolve(key) ==
    /\ resolver_pc = "running"
    /\ entry_pos >= 1
    /\ Len(resolved) < MaxResolve
    /\ IF key \in DOMAIN computed
       THEN /\ resolved' = Append(resolved, [entry |-> entry_pos,
                                             key |-> key,
                                             value |-> computed[key]])
            /\ UNCHANGED <<computed, resolver_pc>>
       ELSE IF "sleep_transformations" \in ResolverAttributes
       THEN LET value == Transform(key, sleep_entries[entry_pos])
            IN /\ computed' = (key :> value) @@ computed
               /\ resolved' = Append(resolved, [entry |-> entry_pos,
                                                key |-> key,
                                                value |-> value])
               /\ UNCHANGED resolver_pc
       ELSE /\ resolver_pc' = "error"
            /\ UNCHANGED <<computed, resolved>>
    /\ UNCHANGED <<sleep_entries, entry_pos>>
    /\ UNCHANGED notResolver

ResolveAny == \E key \in DerivedKeys : Resolve(key)

InitResolver ==
    /\ CoreIdle /\ DateIdle /\ NestedIdle /\ ResolverInit /\ ConvertIdle
    /\ GlobIdle /\ TzIdle /\ FileIdle /\ BinaryIdle
    /\ OutputIdle

NextResolver == GetSleepTransformations \/ ResolveAny

SpecResolver == InitResolver /\ [][NextResolver]_vars

(***************************************************************************)
(* Claims about the resolver.                                              *)
(***************************************************************************)
\* C14: the derived-value cache is cleared between entries: every derived
\* field resolved while an entry is processed is computed, and computed
\* from that entry, never a value cached for an earlier one.
C14_ResolvedFromCurrentEntry ==
    /\ resolver_pc # "error"
    /\ \A i \in 1..Len(resolved) :
           resolved[i].value =
               Transform(resolved[i].key, sleep_entries[resolved[i].entry])

\* resolve never caches or returns a value.
NothingResolved == computed = <<>> /\ resolved = <<>>

(***************************************************************************)
(* convert_timestamp (time_helpers.py).  A timestamp string is the record  *)
(* of its parts: the date and time to the minute (as minutes), the         *)
(* separator "T" or " ", the seconds and the suffix, "Z" for UTC.          *)
(* A datetime is its wall-clock minutes, its second and its tzinfo.        *)
(***************************************************************************)
WallMinutes == {0, 600, 1430}
Seconds == {0, 30, 59}
\* UTC offsets of target zones, in minutes
TargetZones == {-300, 0, 60, 330}

RawTimestamps ==
    [minutes : WallMinutes, sep : {"T", " "}, second : Seconds,
     suffix : {"Z", ""}]

Naive == [aware |-> FALSE]
Zone(utcoffset) == [aware |-> TRUE, utcoffset |-> utcoffset]

\* timestamp.endswith("Z")
endswith_Z(str) == str.suffix = "Z"

\* datetime.strptime(timestamp.replace("T", " ").removesuffix("Z"), format)
strptime(str) ==
    LET replaced == [str EXCEPT !.sep = IF @ = "T" THEN " " ELSE @]
        stripped == [replaced EXCEPT !.suffix = ""]
    IN [minutes |-> stripped.minutes, second |-> stripped.second,
        tzinfo |-> Naive]

\* dt.replace(tzinfo=datetime.timezone.utc).astimezone(tz)
astimezone_from_utc(dt, tz) ==
    [minutes |-> dt.minutes + tz, second |-> dt.second, tzinfo |-> Zone(tz)]

\* convert_timestamp(timestamp, timestamp_format, timezone, use_seconds),
\* timezone given
convert_timestamp(str, tz, seconds) ==
    LET dt == strptime(str)
        local_dt == IF endswith_Z(str) THEN astimezone_from_utc(dt, tz)
                    ELSE [dt EXCEPT !.tzinfo = Zone(tz)]
    IN IF seconds THEN local_dt ELSE [dt EXCEPT !.second = 0]

ConvertInit ==
    /\ raw_timestamp \in RawTimestamps
    /\ timezone \in TargetZones
    /\ use_seconds \in BOOLEAN
    /\ converted = <<>>
    /\ convert_pc = "start"

ConvertTimestamp ==
    /\ convert_pc = "start"
    /\ converted' = convert_timestamp(raw_timestamp, timezone, use_seconds)
    /\ convert_pc' = "done"
    /\ UNCHANGED <<raw_timestamp, timezone, use_seconds>>
    /\ UNCHANGED notConvert

InitConvert ==
    /\ CoreIdle /\ DateIdle /\ NestedIdle /\ ResolverIdle /\ ConvertInit
    /\ GlobIdle /\ TzIdle /\ FileIdle /\ BinaryIdle
    /\ OutputIdle

NextConvert == ConvertTimestamp

SpecConvert == InitConvert /\ [][NextConvert]_vars

(***************************************************************************)
(* Claims about convert_timestamp.                                         *)
(***************************************************************************)
\* C15: with use_seconds false, convert_timestamp returns the datetime it
\* returns with use_seconds true, seconds set to zero: converted from UTC
\* for a "Z" timestamp, and carrying the target zone.
C15_TruncationKeepsZone ==
    convert_pc = "done" /\ ~use_seconds
        => converted = [convert_timestamp(raw_timestamp, timezone, TRUE)
                            EXCEPT !.second = 0]

\* With use_seconds true the datetime returned carries the target zone, and
\* its wall clock is shifted by the zone's offset exactly for "Z".
ZonedWithSeconds ==
    convert_pc = "done" /\ use_seconds
        => /\ converted.tzinfo = Zone(timezone)
           /\ converted.second = raw_timestamp.second
           /\ converted.minutes =
                  raw_timestamp.minutes
                      + (IF raw_timestamp.suffix = "Z" THEN timezone ELSE 0)

\* With use_seconds false the datetime returned is naive.
TruncatedIsNaive ==
    convert_pc = "done" /\ ~use_seconds
        => converted = [minutes |-> raw_timestamp.minutes, second |-> 0,
                        tzinfo |-> Naive]

(***************************************************************************)
(* _build_glob_pattern of HealthSyncHandler and of TakeoutHandler.  A date *)
(* is a day number, day 0 being Sunday 2023-01-01.                         *)
(***************************************************************************)
IsLeap(y) == (y % 4 = 0 /\ y % 100 # 0) \/ y % 400 = 0
DaysIn(y) == IF IsLeap(y) THEN 366 ELSE 365
MonthLengths(y) ==
    <<31, IF IsLeap(y) THEN 29 ELSE 28, 31, 30, 31, 30, 31, 31, 30, 31, 30, 31>>

RECURSIVE YearFrom(_, _)
\* The year and the zero-based day of the year of day number d, counted
\* from 1 January of year y.
YearFrom(d, y) ==
    IF d < DaysIn(y) THEN [year |-> y, yday |-> d]
    ELSE YearFrom(d - DaysIn(y), y + 1)

RECURSIVE MonthFrom(_, _, _)
MonthFrom(yday, mo, lens) ==
    IF yday < lens[mo] THEN [month |-> mo, day |-> yday + 1]
    ELSE MonthFrom(yday - lens[mo], mo + 1, lens)

\* datetime.date: year, month, day, weekday (Sunday = 0) and day of year
Date(d) ==
    LET yd == YearFrom(d, 2023)
        md == MonthFrom(yd.yday, 1, MonthLengths(yd.year))
    IN [year |-> yd.year, month |-> md.month, day |-> md.day,
        wday |-> d % 7, yday |-> yd.yday]

\* DateFormat: the strftime formats by name
DateFormat ==
    [DAILY |-> "%Y.%m.%d", WEEKLY |-> "%U-%Y", MONTHLY |-> "%B %Y"]

\* DateDelta
DateDelta == [DAILY |-> 1, WEEKLY |-> 7, MONTHLY |-> 30]

\* date.strftime(format): the fields the format prints, in its order.  %U
\* is the week of the year, weeks starting on Sunday, days before the first
\* Sunday in week 0.
strftime(d, format) ==
    LET date == Date(d)
    IN CASE format = "%Y.%m.%d" -> <<date.year, date.month, date.day>>
         [] format = "%Y-%m-%d" -> <<date.year, date.month, date.day>>
         [] format = "%U-%Y" ->
                <<(date.yday + 7 - date.wday) \div 7, date.year>>
         [] format = "%B %Y" -> <<date.month, date.year>>

\* calculate_time_delta(glob_date, delta): the cursor moved on by the
\* granularity's day count
calculate_time_delta(d, delta) == d + delta

GlobInit ==
    /\ input_type \in {"takeout", "health_sync"}
    /\ date_type \in IF input_type = "health_sync"
                     THEN {"DAILY", "WEEKLY", "MONTHLY", "YEARLY"}
                     ELSE {"DAILY"}
    /\ glob_start \in 0..MaxGlobStart
    /\ glob_end \in glob_start..(glob_start + MaxGlobSpan)
    /\ glob_date = glob_start
    /\ patterns = <<>>
    /\ glob_pc = "running"

\* HealthSyncHandler._build_glob_pattern: DateFormat[date_type] raises for
\* an unknown name; then one turn of the loop, or its end.
HealthSyncBuildGlobPattern ==
    /\ input_type = "health_sync"
    /\ glob_pc = "running"
    /\ IF date_type \notin DOMAIN DateFormat
       THEN /\ glob_pc' = "error"
            /\ UNCHANGED <<glob_date, patterns>>
       ELSE IF glob_date <= glob_end
       THEN /\ patterns' =
                   Append(patterns, strftime(glob_date, DateFormat[date_type]))
            /\ glob_date' =
                   calculate_time_delta(glob_date, DateDelta[date_type])
            /\ UNCHANGED glob_pc
       ELSE /\ glob_pc' = "done"
            /\ UNCHANGED <<glob_date, patterns>>
    /\ UNCHANGED <<input_type, date_type, glob_start, glob_end>>
    /\ UNCHANGED notGlob

\* TakeoutHandler._build_glob_pattern: one turn of the loop, or its end.
TakeoutBuildGlobPattern ==
    /\ input_type = "takeout"
    /\ glob_pc = "running"
    /\ IF glob_date <= glob_end
       THEN /\ patterns' = Append(patterns, strftime(glob_date, "%Y-%m-%d"))
            /\ glob_date' = glob_date + 1
            /\ UNCHANGED glob_pc
       ELSE /\ glob_pc' = "done"
            /\ UNCHANGED <<glob_date, patterns>>
    /\ UNCHANGED <<input_type, date_type, glob_start, glob_end>>
    /\ UNCHANGED notGlob

InitGlob ==
    /\ CoreIdle /\ DateIdle /\ NestedIdle /\ ResolverIdle /\ ConvertIdle
    /\ GlobInit /\ TzIdle /\ FileIdle /\ BinaryIdle
    /\ OutputIdle

NextGlob == HealthSyncBuildGlobPattern \/ TakeoutBuildGlobPattern

SpecGlob == InitGlob /\ [][NextGlob]_vars

(***************************************************************************)
(* Claims about _build_glob_pattern.                                       *)
(***************************************************************************)
\* The format a run prints its dates in.
GlobFormat ==
    IF input_type = "takeout" THEN "%Y-%m-%d" ELSE DateFormat[date_type]

\* The calendar units (days, weeks or months) that hold a date of the range.
UnitsOfRange == {strftime(d, GlobFormat) : d \in glob_start..glob_end}

\* C16: for a date-partitioned source the patterns generated cover every
\* calendar unit, of the selected granularity, that holds a date of
\* [start_date, end_date].
C16_EveryUnitHasPattern ==
    glob_pc = "done" => UnitsOfRange \subseteq Range(patterns)

\* C17: with weekly or monthly granularity the cursor has advanced by 7 or
\* 30 days per pattern, and no pattern is yielded twice.
C17_NoDuplicatePatterns ==
    input_type = "health_sync" /\ date_type \in {"WEEKLY", "MONTHLY"}
        => /\ glob_date = glob_start + Len(patterns) * DateDelta[date_type]
           /\ \A i, j \in 1..Len(patterns) :
                  i # j => patterns[i] # patterns[j]

\* With daily granularity, in either handler, every day of the range has
\* its pattern, once.
DailyPatternsExact ==
    glob_pc = "done" /\ date_type = "DAILY"
        => patterns = [i \in 1..(glob_end - glob_start + 1) |->
                           strftime(glob_start + i - 1, GlobFormat)]

\* With weekly granularity no pattern is yielded twice.
WeeklyNoDuplicates ==
    date_type = "WEEKLY"
        => \A i, j \in 1..Len(patterns) : i # j => patterns[i] # patterns[j]

\* The cursor advances by the granularity's day count.
CursorAdvances ==
    input_type = "health_sync" /\ date_type \in DOMAIN DateDelta
        => glob_date = glob_start + Len(patterns) * DateDelta[date_type]

(***************************************************************************)
(* get_local_timezone (time_helpers.py).  A struct_time is its tm_yday,    *)
(* tm_hour, tm_min and tm_isdst; offsets are minutes.                      *)
(***************************************************************************)
\* The days of a year of 365 days that the UTC clock is read on.
UtcDays == {1, 100, 365}
UtcHours == {0, 12, 23}
UtcMinutes == {0, 45}
\* Real offsets of the local zone from UTC, daylight saving included.
UtcOffsets == {-600, -210, 0, 60, 330, 600}

\* time.gmtime(): tm_isdst is 0
gmtime(yday, hour, min) ==
    [tm_yday |-> yday, tm_hour |-> hour, tm_min |-> min, tm_isdst |-> 0]

\* time.localtime() at the same instant, in a zone off minutes from UTC
localtime(u, off, isdst) ==
    LET total == u.tm_hour * 60 + u.tm_min + off
        shift == IF total < 0 THEN -1 ELSE IF total >= 1440 THEN 1 ELSE 0
        clock == total - shift * 1440
        yday == u.tm_yday + shift
    IN [tm_yday |-> IF yday < 1 THEN 365 ELSE IF yday > 365 THEN 1 ELSE yday,
        tm_hour |-> clock \div 60, tm_min |-> clock % 60, tm_isdst |-> isdst]

\* get_local_timezone, lines 92-102: the offset computed, in minutes
local_offset(l, u) ==
    LET l_dst == l.tm_isdst
        u_dst == u.tm_isdst
        day_offset == (u.tm_yday - l.tm_yday) * 24
        offset_hr == l.tm_hour + l_dst - u.tm_hour + u_dst + day_offset
        offset_min == l.tm_min - u.tm_min
    IN IF offset_min < 0
       THEN (offset_hr - 1) * 60 + (offset_min + 60)
       ELSE offset_hr * 60 + offset_min

\* datetime.timezone(offset) raises ValueError unless the offset is
\* strictly between -24 and 24 hours.
timezone_accepts(off) == -1440 < off /\ off < 1440

TzInit ==
    /\ \E yday \in UtcDays, hour \in UtcHours, min \in UtcMinutes :
           utc = gmtime(yday, hour, min)
    /\ utc_offset \in UtcOffsets
    /\ \E isdst \in {0, 1} : local = localtime(utc, utc_offset, isdst)
    /\ tz_offset = 0
    /\ tz_pc = "start"

GetLocalTimezone ==
    /\ tz_pc = "start"
    /\ LET off == local_offset(local, utc)
       IN IF timezone_accepts(off)
          THEN tz_offset' = off /\ tz_pc' = "done"
          ELSE tz_offset' = tz_offset /\ tz_pc' = "error"
    /\ UNCHANGED <<utc, local, utc_offset>>
    /\ UNCHANGED notTz

InitTimezone ==
    /\ CoreIdle /\ DateIdle /\ NestedIdle /\ ResolverIdle /\ ConvertIdle
    /\ GlobIdle /\ TzInit /\ FileIdle /\ BinaryIdle
    /\ OutputIdle

NextTimezone == GetLocalTimezone

SpecTimezone == InitTimezone /\ [][NextTimezone]_vars

(***************************************************************************)
(* Claims about get_local_timezone.                                        *)
(***************************************************************************)
\* C18: get_local_timezone never raises, and the offset it returns is
\* strictly between -24 and +24 hours and is local time minus UTC time,
\* also when the local and the UTC calendar day differ.
C18_LocalOffset ==
    tz_pc # "start"
        => /\ tz_pc = "done"
           /\ timezone_accepts(tz_offset)
           /\ tz_offset = utc_offset

\* On one calendar day and outside daylight saving time the offset is right.
SameDayOffset ==
    /\ tz_pc # "start"
    /\ local.tm_yday = utc.tm_yday
    /\ local.tm_isdst = 0
    => tz_pc = "done" /\ tz_offset = utc_offset

\* When the local day is after the UTC day (not across the year's end) the
\* call raises.
NextDayRaises ==
    tz_pc # "start" /\ local.tm_yday = utc.tm_yday + 1 => tz_pc = "error"

(***************************************************************************)
(* create_viatom_file (write_file.py).  A chunk is a list of triples       *)
(* (timestamp, SpO2, BPM), each a tuple.                                   *)
(***************************************************************************)
\* A chunk of n triples, one per minute from t.
ChunkOf(t, n) == [i \in 1..n |-> <<t + i - 1, SpO2Value(t), BpmValue(t)>>]

FileChunks ==
    {ChunkOf(t, n) : t \in Times, n \in 1..MaxShort}
    \cup {ChunkOf(0, chunk_size + 1)}

\* The attributes of a tuple; a datetime has strftime, a tuple has not.
TupleAttributes == {"count", "index"}

FileInit ==
    /\ file_chunks \in UNION {[1..n -> FileChunks] : n \in 0..MaxChunks}
    /\ files = <<>>
    /\ file_pc = "running"

\* create_viatom_file: one turn of `for datum in data`, or its end.  The
\* file name is taken from data[0][0], the first triple of the first chunk,
\* not from datum[0][0], the first timestamp of this chunk: strftime is
\* looked up on a tuple.  (When data is the generator process_data passes,
\* data[0] raises TypeError.)
CreateViatomFile ==
    /\ file_pc = "running"
    /\ IF Len(files) = Len(file_chunks)
       THEN file_pc' = "done" /\ UNCHANGED files
       ELSE LET datum == file_chunks[Len(files) + 1]
            IN IF Len(datum) > chunk_size
               THEN file_pc' = "error" /\ UNCHANGED files
               ELSE IF "strftime" \notin TupleAttributes
               THEN file_pc' = "error" /\ UNCHANGED files
               ELSE /\ files' = Append(files, [name |-> file_chunks[1][1],
                                               data |-> file_chunks])
                    /\ UNCHANGED file_pc
    /\ UNCHANGED file_chunks
    /\ UNCHANGED notFile

InitFile ==
    /\ CoreIdle /\ DateIdle /\ NestedIdle /\ ResolverIdle /\ ConvertIdle
    /\ GlobIdle /\ TzIdle /\ FileInit /\ BinaryIdle
    /\ OutputIdle

NextFile == CreateViatomFile

SpecFile == InitFile /\ [][NextFile]_vars

(***************************************************************************)
(* Claims about create_viatom_file.                                        *)
(***************************************************************************)
\* C19: create_viatom_file writes one file per chunk, the k-th named after
\* the first timestamp of the k-th chunk and holding the records of the
\* k-th chunk; for chunks of at most 4095 records it completes.
C19_OneFilePerChunk ==
    (\A k \in 1..Len(file_chunks) : Len(file_chunks[k]) <= chunk_size)
        => /\ file_pc # "error"
           /\ \A k \in 1..Len(files) :
                  /\ files[k].name = file_chunks[k][1][1]
                  /\ files[k].data = file_chunks[k]
           /\ file_pc = "done" => Len(files) = Len(file_chunks)

\* No file is ever written.
NoFileWritten == files = <<>>

(***************************************************************************)
(* prepare_viatom_binary_data (write_file.py).  bytes is the sequence of   *)
(* its byte values; a timestamp is minutes since 2023-01-01 00:00.         *)
(***************************************************************************)
\* struct.pack("<B", v), "<H", "<I": v in width bytes, least significant
\* first
pack_le(v, width) == [i \in 1..width |-> (v \div (256 ^ (i - 1))) % 256]

\* struct.pack raises struct.error for a value the format cannot hold.
packable(v, width) == 0 <= v /\ v < 256 ^ width

\* b"\x00" * n
zeros(n) == [i \in 1..n |-> 0]

\* The fields of a datetime.
year_of(t) == Date(t \div 1440).year
month_of(t) == Date(t \div 1440).month
day_of(t) == Date(t \div 1440).day
hour_of(t) == (t % 1440) \div 60
minute_of(t) == t % 60
second_of(t) == 0

\* FILESIZE: len(data) * 8 + 40
file_size_wide(n) == n * 8 + 40

\* FILESIZE: len(data) * 5 + 40
file_size(n) == n * 5 + 40

\* lines 65-79: the header
viatom_header(data) ==
    LET first_record_time == data[1][1]
    IN <<5, 0>>
       \o pack_le(year_of(first_record_time), 2)
       \o <<month_of(first_record_time), day_of(first_record_time),
            hour_of(first_record_time), minute_of(first_record_time),
            second_of(first_record_time)>>
       \o pack_le(file_size(Len(data)), 4)
       \o pack_le(Len(data) * 4, 2)
       \o zeros(25)

\* lines 82-84: one record
viatom_record(record) == <<record[2], record[3]>> \o zeros(3)

\* lines 81-84: the records, in order
viatom_records(data) ==
    [i \in 1..(5 * Len(data)) |->
        viatom_record(data[((i - 1) \div 5) + 1])[((i - 1) % 5) + 1]]

prepare_viatom_binary_data(data) == viatom_header(data) \o viatom_records(data)

RecordCounts == (1..MaxShort) \cup {255, 256, chunk_size - 1, chunk_size}
RecordSpO2 == {75, 99}
RecordBpm == {50, 255, 256}

BinaryInit ==
    /\ \E n \in RecordCounts, t \in Times, s \in RecordSpO2, b \in RecordBpm :
           chunk_records = [i \in 1..n |-> <<t + i - 1, s, b>>]
    /\ binary_data = <<>>
    /\ binary_pc = "start"

\* prepare_viatom_binary_data(data); struct.error for a value that is not
\* a byte.
PrepareViatomBinaryData ==
    /\ binary_pc = "start"
    /\ IF \A i \in 1..Len(chunk_records) :
              packable(chunk_records[i][2], 1) /\ packable(chunk_records[i][3], 1)
       THEN /\ binary_data' = prepare_viatom_binary_data(chunk_records)
            /\ binary_pc' = "done"
       ELSE /\ binary_pc' = "error"
            /\ UNCHANGED binary_data
    /\ UNCHANGED chunk_records
    /\ UNCHANGED notBinary

InitBinary ==
    /\ CoreIdle /\ DateIdle /\ NestedIdle /\ ResolverIdle /\ ConvertIdle
    /\ GlobIdle /\ TzIdle /\ FileIdle /\ BinaryInit
    /\ OutputIdle

NextBinary == PrepareViatomBinaryData

SpecBinary == InitBinary /\ [][NextBinary]_vars

(***************************************************************************)
(* Claims about prepare_viatom_binary_data.                                *)
(***************************************************************************)
\* The 32-bit little-endian field at bytes 9..12 of the header.
FileSizeField(bytes) ==
    bytes[10] + 256 * bytes[11] + 65536 * bytes[12] + 16777216 * bytes[13]

\* The bytes that follow the header.
BodyOf(bytes) == SubSeq(bytes, Len(bytes) - 5 * Len(chunk_records) + 1, Len(bytes))

\* C20: in the bytes produced, the header's file-size field is the total
\* number of bytes: the header and, for each triple, one record of fixed
\* width holding the SpO2 byte, the BPM byte and zero bytes.
C20_FileSizeField ==
    binary_pc = "done"
        => /\ FileSizeField(binary_data) = Len(binary_data)
           /\ \A i \in 1..Len(chunk_records) :
                  LET rec == SubSeq(BodyOf(binary_data), 5 * i - 4, 5 * i)
                  IN /\ rec[1] = chunk_records[i][2]
                     /\ rec[2] = chunk_records[i][3]
                     /\ \A k \in 3..5 : rec[k] = 0

\* A full chunk of 4095 records has been converted.
C20_Witness ==
    /\ binary_pc = "done"
    /\ Len(chunk_records) = chunk_size
    /\ FileSizeField(binary_data) = 20515

(***************************************************************************)
(* More claims about create_viatom_file.                                   *)
(***************************************************************************)
\* The first chunk longer than 4095 records, 0 if there is none.
FirstLongChunk ==
    IF \E k \in 1..Len(file_chunks) : Len(file_chunks[k]) > chunk_size
    THEN CHOOSE k \in 1..Len(file_chunks) :
             /\ Len(file_chunks[k]) > chunk_size
             /\ \A j \in 1..(k - 1) : Len(file_chunks[j]) <= chunk_size
    ELSE 0

\* C21: every file written holds at most 4095 records; a chunk longer than
\* 4095 records raises a fatal error with no file written for it, and the
\* files of the chunks before it are then on disk.
C21_CeilingKeepsEarlierFiles ==
    /\ \A k \in 1..Len(files) : Len(files[k].data) <= chunk_size
    /\ file_pc = "error" /\ FirstLongChunk # 0
           => files = [k \in 1..(FirstLongChunk - 1) |->
                           [name |-> file_chunks[k][1][1],
                            data |-> file_chunks[k]]]
    /\ FirstLongChunk # 0 => file_pc # "done"

\* A chunk longer than 4095 records never gets a file, and the run does not
\* complete.
LongChunkRefused ==
    FirstLongChunk # 0
        => file_pc # "done" /\ Len(files) < FirstLongChunk

(***************************************************************************)
(* convert_time_data (time_helpers.py; the earlier one of extract.py).     *)
(* A Python value is an int or the tuple divmod returns; the result is a   *)
(* string, a sequence of characters, or <<"TypeError">> when the call      *)
(* raises.                                                                 *)
(***************************************************************************)
MaxMinutes == 125
MaxSeconds == 61

IntValue(n) == [type |-> "int", val |-> <<n>>]
TupleValue(a, b) == [type |-> "tuple", val |-> <<a, b>>]

\* divmod(a, b) of two ints.
divmod(a, b) == TupleValue(a \div b, a % b)

DecimalDigits == <<"0", "1", "2", "3", "4", "5", "6", "7", "8", "9">>

RECURSIVE format_d(_)
\* f"{n:d}" of a non-negative int.
format_d(n) ==
    IF n < 10 THEN <<DecimalDigits[n + 1]>>
    ELSE Append(format_d(n \div 10), DecimalDigits[(n % 10) + 1])

\* f"{n:02d}": at least two digits, padded with a zero.
format_02d(n) == IF n < 10 THEN <<"0">> \o format_d(n) ELSE format_d(n)

TimeTypeError == <<"TypeError">>

\* time_helpers.convert_time_data(minutes, seconds).
convert_time_data(minutes, seconds) ==
    LET value == IF minutes = 0 THEN divmod(seconds, 60)
                 ELSE IntValue(minutes)
    IN  IF value.type # "int" THEN TimeTypeError
        ELSE LET hm == divmod(value.val[1], 60)
             IN  format_02d(hm.val[1]) \o <<":">> \o format_02d(hm.val[2])
                     \o <<":">> \o format_02d(seconds)

\* extract.convert_time_data(minutes).
legacy_convert_time_data(minutes) ==
    LET hm == divmod(minutes, 60)
    IN  format_02d(hm.val[1]) \o <<":">> \o format_02d(hm.val[2])
            \o <<":", "0", "0">>

\* The HH:MM:SS rendering of a duration of s seconds.
Rendering(s) ==
    format_02d(s \div 3600) \o <<":">> \o format_02d((s % 3600) \div 60)
        \o <<":">> \o format_02d(s % 60)

InitTime ==
    /\ CoreIdle /\ HelpersIdle
    /\ DreemIdle /\ CollectIdle /\ EntryIdle /\ ZoneIdle /\ RegistryIdle
    /\ time_minutes \in 0..MaxMinutes
    /\ time_seconds \in 0..MaxSeconds
    /\ time_string = <<>>
    /\ legacy_string = <<>>

ConvertTimeData ==
    /\ time_string = <<>>
    /\ time_string' = convert_time_data(time_minutes, time_seconds)
    /\ UNCHANGED <<time_minutes, time_seconds, legacy_string>>
    /\ UNCHANGED notTime

LegacyConvertTimeData ==
    /\ legacy_string = <<>>
    /\ legacy_string' = legacy_convert_time_data(time_minutes)
    /\ UNCHANGED <<time_minutes, time_seconds, time_string>>
    /\ UNCHANGED notTime

NextTime == ConvertTimeData \/ LegacyConvertTimeData

SpecTime == InitTime /\ [][NextTime]_vars

\* C23: every non-negative whole number of minutes m, zero included, given
\* alone is rendered as HH:MM:00 with HH = m div 60 and MM = m mod 60, and
\* an input given only as seconds is rendered as its true HH:MM:SS.
C23_TimeRendered ==
    time_string # <<>> =>
        /\ time_seconds = 0 => time_string = Rendering(60 * time_minutes)
        /\ time_minutes = 0 => time_string = Rendering(time_seconds)

\* A positive number of minutes given alone is rendered as the claim says.
PositiveMinutesRendered ==
    time_string # <<>> /\ time_minutes > 0 /\ time_seconds = 0
        => time_string = Rendering(60 * time_minutes)

\* A call without a positive number of minutes raises.
ZeroMinutesRaises ==
    time_string # <<>> /\ time_minutes = 0 => time_string = TimeTypeError

\* The convert_time_data of extract.py renders every number of minutes.
LegacyMinutesRendered ==
    legacy_string # <<>> => legacy_string = Rendering(60 * time_minutes)

(***************************************************************************)
(* parse_sleep_data (parsers.py) feeding prepare_dreem_data and            *)
(* write_dreem_file (write_file.py).  A parsed night is the dict literal   *)
(* of parse_sleep_data, a sequence of items in insertion order; its items  *)
(* are evaluated in that order and the first one that raises ends the      *)
(* generator.                                                              *)
(***************************************************************************)
MaxNights == 2

\* a / b of two ints: a float, kept as the fraction.
truediv(a, b) == [type |-> "float", val |-> <<a, b>>]

TimeValueError == <<"ValueError">>

IsRaised(str) == str \in {TimeTypeError, TimeValueError}

\* convert_time_data(minutes=value) for an int or a float.
convert_time_value(value) ==
    IF value.type = "int" THEN convert_time_data(value.val[1], 0)
    ELSE IF value.val[1] = 0 THEN TimeTypeError
    ELSE TimeValueError

\* ','.join(items) inside brackets: every item has to be a str, and
\* generate_hypnogram returns a list of lists.
joined_hypnogram(data) ==
    IF Len(generate_hypnogram(data)) = 0 THEN <<"[", "]">>
    ELSE TimeTypeError

\* The sleep entries handed to parse_sleep_data.
Nights ==
    [start_time : {0},
     stop_time : {480},
     duration : {0, 28800000},
     light : {0, 95},
     deep : {95},
     rem : {95},
     wake_after_sleep_onset_duration : {24},
     wake_count : {0, 3},
     sleep_efficiency : {95},
     data : {<<>>, <<[level |-> "light", seconds |-> 30]>>}]

\* The items of the dict literal, in order.
parsed_items(night) ==
    << [key |-> "start_time", val |-> <<night.start_time>>],
       [key |-> "stop_time", val |-> <<night.stop_time>>],
       [key |-> "sleep_onset_duration",
        val |-> convert_time_value(truediv(night.duration, 60000))],
       [key |-> "light_sleep_duration",
        val |-> convert_time_value(IntValue(night.light))],
       [key |-> "deep_sleep_duration",
        val |-> convert_time_value(IntValue(night.deep))],
       [key |-> "rem_sleep_duration",
        val |-> convert_time_value(IntValue(night.rem))],
       [key |-> "wake_after_sleep_onset_duration",
        val |-> convert_time_value(
                    IntValue(night.wake_after_sleep_onset_duration))],
       [key |-> "number_awakenings", val |-> <<night.wake_count>>],
       [key |-> "sleep_efficiency", val |-> <<night.sleep_efficiency>>],
       [key |-> "hypnogram", val |-> joined_hypnogram(night.data)] >>

\* Python evaluates the items in order: does one of the str items raise?
parse_raises(night) ==
    \E i \in {3, 4, 5, 6, 7, 10} : IsRaised(parsed_items(night)[i].val)

\* night.values()
dict_values(items) == [i \in 1..Len(items) |-> items[i].val]

DreemHeader ==
    << "Start Time", "Stop Time", "Sleep Onset Duration",
       "Light Sleep Duration", "Deep Sleep Duration", "REM Duration",
       "Wake After Sleep Onset Duration", "Number of awakenings",
       "Sleep efficiency", "Hypnogram" >>

InitDreem ==
    /\ CoreIdle /\ HelpersIdle
    /\ TimeIdle /\ CollectIdle /\ EntryIdle /\ ZoneIdle /\ RegistryIdle
    /\ sleep_generator \in UNION {[1..n -> Nights] : n \in 0..MaxNights}
    /\ dreem_pos = 0
    /\ dreem_rows = <<>>
    /\ dreem_pc = "open"

\* prepare_dreem_data up to its first yield: the header row is written.
WriteHeader ==
    /\ dreem_pc = "open"
    /\ dreem_rows' = <<DreemHeader>>
    /\ dreem_pc' = "rows"
    /\ UNCHANGED <<sleep_generator, dreem_pos>>
    /\ UNCHANGED notDreem

\* One turn of `for night in dreem_data`: parse_sleep_data builds the next
\* dict or raises, and the row of its values is written.
WriteNight ==
    /\ dreem_pc = "rows"
    /\ dreem_pos < Len(sleep_generator)
    /\ dreem_pos' = dreem_pos + 1
    /\ LET night == sleep_generator[dreem_pos + 1]
       IN  IF parse_raises(night)
           THEN /\ dreem_pc' = "error"
                /\ UNCHANGED dreem_rows
           ELSE /\ dreem_rows' =
                       Append(dreem_rows, dict_values(parsed_items(night)))
                /\ UNCHANGED dreem_pc
    /\ UNCHANGED sleep_generator
    /\ UNCHANGED notDreem

\* The generator is exhausted and the file is closed.
CloseDreemFile ==
    /\ dreem_pc = "rows"
    /\ dreem_pos = Len(sleep_generator)
    /\ dreem_pc' = "done"
    /\ UNCHANGED <<sleep_generator, dreem_pos, dreem_rows>>
    /\ UNCHANGED notDreem

NextDreem == WriteHeader \/ WriteNight \/ CloseDreemFile

SpecDreem == InitDreem /\ [][NextDreem]_vars

\* C22: the sleep summary output is the header row followed by exactly one
\* row per sleep entry, in input order, with the fields in the header's
\* order; with zero sleep entries it is the header row alone.
C22_OneRowPerNight ==
    dreem_pc \in {"done", "error"} =>
        /\ Len(dreem_rows) = 1 + Len(sleep_generator)
        /\ dreem_rows[1] = DreemHeader
        /\ \A i \in 1..Len(sleep_generator) :
               LET row == dreem_rows[i + 1]
                   night == sleep_generator[i]
               IN  /\ Len(row) = Len(DreemHeader)
                   /\ row[1] = <<night.start_time>>
                   /\ row[2] = <<night.stop_time>>
                   /\ row[4] = Rendering(60 * night.light)
                   /\ row[5] = Rendering(60 * night.deep)
                   /\ row[6] = Rendering(60 * night.rem)
                   /\ row[8] = <<night.wake_count>>
                   /\ row[9] = <<night.sleep_efficiency>>

\* The output always starts with the header row, and with zero sleep
\* entries it is the header row alone.
HeaderFirst ==
    /\ dreem_pc # "open" => Len(dreem_rows) >= 1 /\ dreem_rows[1] = DreemHeader
    /\ dreem_pc = "done" /\ Len(sleep_generator) = 0
           => dreem_rows = <<DreemHeader>>

\* No row is ever written for a sleep entry: the first entry raises.
NoNightWritten ==
    /\ Len(dreem_rows) <= 1
    /\ Len(sleep_generator) > 0 => dreem_pc # "done"

(***************************************************************************)
(* FitbitExtractor.collect_vitals_data (fitbit_extractor.py): the samples  *)
(* of each file, in the order the files are enumerated.  Path.glob gives   *)
(* the files in directory order, so every order of the files is an input.  *)
(* Timestamps are minutes; timestamp.date() is the day number.             *)
(***************************************************************************)
MaxStamp == 4
MaxFiles == 2

FileStamps == {720 * k : k \in 0..MaxStamp}

date_of(t) == t \div 1440

\* start_date, end_date of the run
CollectRange == [start_date |-> 0, end_date |-> 1]

\* What extract_vitals_data yields for a file: its samples in file order,
\* a file holding them in time order.
VitalsFiles == {SortedSeq(S) : S \in (SUBSET FileStamps) \ {{}}}

\* The generator expression for one file.
file_vitals(file) ==
    SelectSeq([i \in 1..Len(file) |-> VitalsData(file[i], 95)],
              LAMBDA v : is_valid_date(date_of(v.timestamp),
                                       CollectRange.start_date,
                                       CollectRange.end_date))

\* timestamps never go back along the stream
NonDecreasing(stream) ==
    \A i \in 1..(Len(stream) - 1) :
        stream[i].timestamp <= stream[i + 1].timestamp

InitCollect ==
    /\ CoreIdle /\ HelpersIdle
    /\ TimeIdle /\ DreemIdle /\ EntryIdle /\ ZoneIdle /\ RegistryIdle
    /\ vitals_files \in UNION {[1..n -> VitalsFiles] : n \in 1..MaxFiles}
    /\ file_pos = 0
    /\ collected = <<>>
    /\ collect_pc = "running"

\* `for file in vitals_files`: the samples of the next file follow those
\* already yielded.
CollectFile ==
    /\ collect_pc = "running"
    /\ file_pos < Len(vitals_files)
    /\ file_pos' = file_pos + 1
    /\ collected' = collected \o file_vitals(vitals_files[file_pos + 1])
    /\ UNCHANGED <<vitals_files, collect_pc>>
    /\ UNCHANGED notCollect

CollectExhausted ==
    /\ collect_pc = "running"
    /\ file_pos = Len(vitals_files)
    /\ collect_pc' = "done"
    /\ UNCHANGED <<vitals_files, file_pos, collected>>
    /\ UNCHANGED notCollect

NextCollect == CollectFile \/ CollectExhausted

SpecCollect == InitCollect /\ [][NextCollect]_vars

\* C24: the stream handed to the synchronizer is in non-decreasing
\* timestamp order whatever order the input files are enumerated in.
C24_StreamSorted ==
    collect_pc = "done" => NonDecreasing(collected)

\* The stream is the concatenation of the per-file results in file order.
StreamConcatenated ==
    collected = Concat([k \in 1..file_pos |-> file_vitals(vitals_files[k])])

\* The samples of a single file come out in time order.
SingleFileSorted ==
    Len(vitals_files) = 1 => NonDecreasing(collected)

(***************************************************************************)
(* The vitals pipeline on streams with long gaps and repeated samples:     *)
(* timestamps are non-decreasing, a sample may come twice in a row (the    *)
(* same timestamp and value, as overlapping files give), and consecutive   *)
(* timestamps may lie more than session_split minutes apart.               *)
(***************************************************************************)
MaxFar == 2

StreamTimes == {0} \cup {5 + 20 * k : k \in 0..MaxFar}

\* The timestamps of S in increasing order, those of D twice.
RepeatedTimes(S, D) ==
    LET ts == SortedSeq(S)
    IN  Concat([i \in 1..Len(ts) |->
                   IF ts[i] \in D THEN <<ts[i], ts[i]>> ELSE <<ts[i]>>])

StreamsInit ==
    /\ \E S \in SUBSET StreamTimes : \E D \in SUBSET S :
           spo2_data = [i \in 1..Len(RepeatedTimes(S, D)) |->
                           VitalsData(RepeatedTimes(S, D)[i],
                                      SpO2Value(RepeatedTimes(S, D)[i]))]
    /\ \E S \in SUBSET StreamTimes : \E D \in SUBSET S :
           bpm_data = [i \in 1..Len(RepeatedTimes(S, D)) |->
                          VitalsData(RepeatedTimes(S, D)[i],
                                     BpmValue(RepeatedTimes(S, D)[i]))]
    /\ spo2_pos = 0
    /\ bpm_pos = 0
    /\ spo2 = False
    /\ bpm = False
    /\ counts_bound = FALSE
    /\ spo2_count = 0
    /\ bpm_count = 0
    /\ spo2_entries = 0
    /\ bpm_entries = 0
    /\ sync_pc = "outer"
    /\ pairs = <<>>
    /\ session = <<>>
    /\ prev_timestamp = None
    /\ parse_pc = "running"
    /\ emitted = <<>>

InitStreams ==
    /\ StreamsInit /\ ChunkIdle /\ HypIdle /\ EffIdle /\ VitalsIdle
    /\ SleepIdle
    /\ HelpersIdle
    /\ OutputIdle

SpecStreams == InitStreams /\ [][Next]_vars

\* C25: parse_sleep_health_data never emits a session with zero elements,
\* also when consecutive aligned pairs are each more than session_split
\* minutes apart and when no pair is aligned at all.
C25_NoEmptySession ==
    \A i \in 1..Len(emitted) : Len(emitted[i]) > 0

\* C25 witness: two sessions were emitted for aligned pairs each more than
\* session_split minutes after the one before, the second holding a single
\* triple.
C25_Witness ==
    /\ Len(emitted) >= 2
    /\ Len(emitted[2]) = 1
    /\ Len(pairs) >= 3
    /\ \A i \in 2..Len(pairs) :
           pairs[i].spo2.timestamp - pairs[i - 1].spo2.timestamp
               > session_split

\* Streams without a common timestamp give no session at all.
NoPairNoSession ==
    TimestampsOf(spo2_data) \cap TimestampsOf(bpm_data) = {}
        => emitted = <<>> /\ pairs = <<>>

\* The timestamps for which a pair was yielded.
PairedTimestamps == {pairs[i].spo2.timestamp : i \in 1..Len(pairs)}

\* A step in which sync_timestamps returns is one in which the stream it
\* pulls from has no sample left: either stream at line 55-58, the stream
\* that is behind at lines 60-71.
StopIsExhaustion ==
    /\ sync_pc = "outer" /\ sync_pc' = "done"
           => spo2_pos = Len(spo2_data) \/ bpm_pos = Len(bpm_data)
    /\ sync_pc = "inner" /\ sync_pc' = "done"
           => IF timestamps_of(spo2, bpm) = -1
              THEN spo2_pos = Len(spo2_data)
              ELSE bpm_pos = Len(bpm_data)

\* C27: sync_timestamps stops only when a stream is really exhausted: on
\* non-decreasing streams that may hold the same sample twice in a row,
\* once it has returned every timestamp present in both streams has
\* yielded a pair.
C27_StopsOnlyWhenExhausted ==
    /\ [][StopIsExhaustion]_vars
    /\ [](sync_pc = "done" =>
              TimestampsOf(spo2_data) \cap TimestampsOf(bpm_data)
                  \subseteq PairedTimestamps)

\* On strictly increasing streams sync_timestamps returns only at the end
\* of a stream.
StrictStreamsStopExhausted == [][StopIsExhaustion]_vars

\* On strictly increasing streams a return leaves no common timestamp
\* without its pair.
StrictStreamsAllPaired ==
    sync_pc = "done" =>
        TimestampsOf(spo2_data) \cap TimestampsOf(bpm_data)
            \subseteq PairedTimestamps

\* The list object a consumer holds for the i-th emitted session: yield
\* hands out the one list parse_sleep_health_data keeps appending to.
HeldSession(i) == session

\* C28: a session emitted by parse_sleep_health_data keeps its contents
\* after the generator is advanced: what a consumer holds for each emitted
\* session stays what it was at the moment it was emitted.
C28_SessionKeepsContents ==
    \A i \in 1..Len(emitted) : HeldSession(i) = emitted[i]

\* Until the generator is advanced the emitted session reads as emitted.
SessionIntactUntilResumed ==
    parse_pc = "yielded" => HeldSession(Len(emitted)) = emitted[Len(emitted)]

\* Once the generator has been advanced every emitted session reads as the
\* session in progress.
EmittedAliasSession ==
    parse_pc # "yielded" =>
        \A i \in 1..Len(emitted) : HeldSession(i) = session

(***************************************************************************)
(* The "duration" and "levels" sleep transformations of health_sync        *)
(* (plugins/health_sync/handler.py), applied to an entry: the list of CSV  *)
(* stage rows of one night.  Times are seconds.  The result of a call is   *)
(* a record: raised is the exception's name, or "" beside the value.       *)
(***************************************************************************)
MaxEntryRows == 2

EntryRows == [Date : {0, 30, 60}, Seconds : {30, 60}, Stage : {"light", "wake"}]

\* extract.calculate_stop_time: the last row's start plus its duration
calculate_stop_time(rows) == Last(rows).Date + Last(rows).Seconds

\* time_helpers.calculate_duration
calculate_duration(start, stop) == stop - start

\* resolver.resolve(*args): resolve(self, entry, key) needs both arguments,
\* and on a cache miss reads self.sleep_transformations, which a Resolver
\* does not have.
resolve_call(args) ==
    IF Len(args) # 2 THEN [raised |-> "TypeError"]
    ELSE IF "sleep_transformations" \notin ResolverAttributes
    THEN [raised |-> "AttributeError"]
    ELSE [raised |-> "", val |-> Transform(args[2], args[1])]

\* sleep_transformations["duration"](entry)
duration_transformation(entry) ==
    LET start == resolve_call(<<"start_time">>)
    IN  IF start.raised # "" THEN start
        ELSE LET stop == resolve_call(<<entry, "stop_time">>)
             IN  IF stop.raised # "" THEN stop
                 ELSE [raised |-> "",
                       val |-> calculate_duration(entry[1].Date,
                                                  calculate_stop_time(entry))]

\* sleep_transformations["levels"](entry)
levels_transformation(entry) ==
    LET d == resolve_call(<<entry, "duration">>)
    IN  IF d.raised # "" THEN d
        ELSE [raised |-> "", val |-> sleep_levels(entry)]

RECURSIVE record_seconds(_)
\* The seconds of the stage records of levels["data"], summed.
record_seconds(data) ==
    IF data = <<>> THEN 0
    ELSE Head(data).seconds + record_seconds(Tail(data))

\* Each row starts where the row before it ends.
Contiguous(rows) ==
    \A i \in 2..Len(rows) : rows[i].Date = rows[i - 1].Date + rows[i - 1].Seconds

InitEntry ==
    /\ CoreIdle /\ HelpersIdle
    /\ TimeIdle /\ DreemIdle /\ CollectIdle /\ ZoneIdle /\ RegistryIdle
    /\ stage_rows \in UNION {[1..n -> EntryRows] : n \in 1..MaxEntryRows}
    /\ entry_duration = 0
    /\ entry_levels = <<>>
    /\ entry_pc = "start"

DurationTransformation ==
    /\ entry_pc = "start"
    /\ LET r == duration_transformation(stage_rows)
       IN  IF r.raised # ""
           THEN /\ entry_pc' = r.raised
                /\ UNCHANGED entry_duration
           ELSE /\ entry_pc' = "duration"
                /\ entry_duration' = r.val
    /\ UNCHANGED <<stage_rows, entry_levels>>
    /\ UNCHANGED notEntry

LevelsTransformation ==
    /\ entry_pc \in {"start", "duration"}
    /\ LET r == levels_transformation(stage_rows)
       IN  IF r.raised # ""
           THEN /\ entry_pc' = r.raised
                /\ UNCHANGED entry_levels
           ELSE /\ entry_pc' = "done"
                /\ entry_levels' = r.val.data
    /\ UNCHANGED <<stage_rows, entry_duration>>
    /\ UNCHANGED notEntry

NextEntry == DurationTransformation \/ LevelsTransformation

SpecEntry == InitEntry /\ [][NextEntry]_vars

\* C26: for every sleep entry built from stage rows, the seconds of its
\* stage records sum to at most the entry's duration in seconds (stop time
\* minus start time).
C26_StageSecondsWithinDuration ==
    entry_pc # "start" =>
        /\ entry_pc = "done"
        /\ record_seconds(entry_levels) <= entry_duration

\* Neither transformation ever returns: no duration and no stage record is
\* built for any entry.
TransformationsRaise ==
    /\ entry_pc \in {"start", "TypeError", "AttributeError"}
    /\ entry_duration = 0
    /\ entry_levels = <<>>

\* For rows that follow one another without overlap, the stage seconds are
\* the span from the first row's start to calculate_stop_time.
ContiguousRowsAccounted ==
    Contiguous(stage_rows) =>
        record_seconds(sleep_levels(stage_rows).data)
            = calculate_duration(stage_rows[1].Date,
                                 calculate_stop_time(stage_rows))

(***************************************************************************)
(* parse_offset (time_helpers.py).  The zone is a Python str, a sequence   *)
(* of characters; the offset of the timezone built is held in minutes.     *)
(***************************************************************************)
MaxZoneHour == 14

ZoneMinutes == {0, 15, 30, 45}

\* The offset string [-]HH:MM[:SS] of the zone tables.
ZoneString(negative, hh, mm, with_seconds) ==
    (IF negative THEN <<"-">> ELSE <<>>)
        \o format_02d(hh) \o <<":">> \o format_02d(mm)
        \o (IF with_seconds THEN <<":", "0", "0">> ELSE <<>>)

\* The index of the first ":" of str, 0 if there is none.
find_colon(str) ==
    IF \E i \in 1..Len(str) : str[i] = ":"
    THEN CHOOSE i \in 1..Len(str) :
             str[i] = ":" /\ \A j \in 1..(i - 1) : str[j] # ":"
    ELSE 0

\* str.split(":", maxsplit=1) of a str that holds a ":"
split_once(str) ==
    <<SubSeq(str, 1, find_colon(str) - 1),
      SubSeq(str, find_colon(str) + 1, Len(str))>>

\* str.split(":")[0]
before_colon(str) ==
    IF find_colon(str) = 0 THEN str ELSE SubSeq(str, 1, find_colon(str) - 1)

digit_value(char) == CHOOSE d \in 0..9 : DecimalDigits[d + 1] = char

RECURSIVE digits_value(_)
digits_value(str) ==
    IF str = <<>> THEN 0
    ELSE 10 * digits_value(SubSeq(str, 1, Len(str) - 1))
         + digit_value(str[Len(str)])

\* int(str) of an optional "-" and decimal digits
int(str) ==
    IF str # <<>> /\ Head(str) = "-" THEN 0 - digits_value(Tail(str))
    ELSE digits_value(str)

\* parse_offset(zone): timedelta(hours=int(offset_hr),
\* minutes=int(offset_min.split(":")[0])), in minutes.
parse_offset(str) ==
    LET offset_hr == split_once(str)[1]
        offset_min == split_once(str)[2]
    IN  60 * int(offset_hr) + int(before_colon(offset_min))

InitZone ==
    /\ CoreIdle /\ HelpersIdle
    /\ TimeIdle /\ DreemIdle /\ CollectIdle /\ EntryIdle /\ RegistryIdle
    /\ \E negative \in BOOLEAN, hh \in 0..MaxZoneHour, mm \in ZoneMinutes,
          with_seconds \in BOOLEAN :
           zone = ZoneString(negative, hh, mm, with_seconds)
    /\ zone_offset = 0
    /\ zone_pc = "start"

ParseOffset ==
    /\ zone_pc = "start"
    /\ zone_offset' = parse_offset(zone)
    /\ zone_pc' = "done"
    /\ UNCHANGED zone
    /\ UNCHANGED notZone

NextZone == ParseOffset

SpecZone == InitZone /\ [][NextZone]_vars

\* C29: parse_offset turns [-]HH:MM[:SS] into the offset of
\* sign * (60 * HH + MM) minutes; -03:30 is minus 210 minutes.
C29_OffsetKeepsSign ==
    zone_pc = "done" =>
        \A negative \in BOOLEAN, hh \in 0..MaxZoneHour, mm \in ZoneMinutes,
           with_seconds \in BOOLEAN :
            zone = ZoneString(negative, hh, mm, with_seconds)
                => zone_offset = (IF negative THEN -1 ELSE 1) * (60 * hh + mm)

\* Offsets east of Greenwich and whole-hour offsets are parsed as the
\* claim says.
WholeHourOffsets ==
    zone_pc = "done" =>
        \A negative \in BOOLEAN, hh \in 0..MaxZoneHour, mm \in ZoneMinutes,
           with_seconds \in BOOLEAN :
            zone = ZoneString(negative, hh, mm, with_seconds)
                /\ (~negative \/ mm = 0)
                => zone_offset = (IF negative THEN -1 ELSE 1) * (60 * hh + mm)

\* A negative offset has its minutes added, not subtracted.
NegativeMinutesAdded ==
    zone_pc = "done" =>
        \A hh \in 0..MaxZoneHour, mm \in ZoneMinutes, with_seconds \in BOOLEAN :
            zone = ZoneString(TRUE, hh, mm, with_seconds)
                => zone_offset = mm - 60 * hh

(***************************************************************************)
(* DataHandler.__init_subclass__ (handlers.py): the registry of handler    *)
(* classes.  Classes are numbered in the order their class statements      *)
(* run, 0 being DataHandler itself; defined[k] records the k-th class      *)
(* statement, created telling whether the class came into being.           *)
(***************************************************************************)
MaxClasses == 4

\* The package a class body sets; "" when the body sets none and the
\* attribute is inherited (plugins/takeout/handler.py sets none).
BodyPackages == {"", "takeout", "health_sync"}

\* cls.package of a class with the given base
class_package(body_package, base, classes) ==
    IF body_package # "" THEN body_package
    ELSE IF base = 0 THEN "fitbit2oscar"
    ELSE classes[base].package

\* `package in cls._registry`, line 38.  (A variant that never finds the
\* package registered.)
registered_never(package, reg) == FALSE
registered(package, reg) == package \in DOMAIN reg

InitRegistry ==
    /\ CoreIdle /\ HelpersIdle
    /\ TimeIdle /\ DreemIdle /\ CollectIdle /\ EntryIdle /\ ZoneIdle
    /\ registry = <<>>
    /\ defined = <<>>
    /\ raised = FALSE

\* A class statement with base DataHandler or a class created before:
\* __init_subclass__ raises ValueError for a registered package, and
\* registers the new class otherwise.
InitSubclass(body_package, base) ==
    /\ Len(defined) < MaxClasses
    /\ base = 0 \/ (base \in 1..Len(defined) /\ defined[base].created)
    /\ LET package == class_package(body_package, base, defined)
           cls == Len(defined) + 1
       IN  IF registered(package, registry)
           THEN /\ raised' = TRUE
                /\ UNCHANGED registry
                /\ defined' = Append(defined,
                                     [package |-> package, base |-> base,
                                      body |-> body_package,
                                      created |-> FALSE])
           ELSE /\ raised' = FALSE
                /\ registry' = [key \in DOMAIN registry \cup {package} |->
                                   IF key = package THEN cls
                                   ELSE registry[key]]
                /\ defined' = Append(defined,
                                     [package |-> package, base |-> base,
                                      body |-> body_package,
                                      created |-> TRUE])
    /\ UNCHANGED notRegistry

DefineSubclass ==
    \E body_package \in BodyPackages, base \in 0..MaxClasses :
        InitSubclass(body_package, base)

NextRegistry == DefineSubclass

SpecRegistry == InitRegistry /\ [][NextRegistry]_vars

\* The first class statement whose class has the given package.
FirstWithPackage(package) ==
    CHOOSE k \in 1..Len(defined) :
        /\ defined[k].package = package
        /\ \A j \in 1..(k - 1) : defined[j].package # package

\* C30: the registry holds at most one class per identifier: a class
\* statement whose package is already registered raises and leaves that
\* entry as it was, and every identifier defined so far stays registered
\* (each under the first class defined with it).
C30_RegistryOnePerIdentifier ==
    /\ \A k \in 1..Len(defined) :
           /\ defined[k].package \in DOMAIN registry
           /\ registry[defined[k].package] = FirstWithPackage(defined[k].package)
           /\ defined[k].created <=> registry[defined[k].package] = k
    /\ DOMAIN registry = {defined[k].package : k \in 1..Len(defined)}
    /\ defined # <<>> => (raised <=> ~Last(defined).created)

\* C30 witness: a class statement with a registered package has just
\* raised, with another identifier registered as well.
C30_Witness ==
    /\ Len(defined) >= 3
    /\ raised
    /\ ~Last(defined).created
    /\ registry[Last(defined).package] < Len(defined)
    /\ Cardinality(DOMAIN registry) >= 2

\* A class that extends DataHandler with a body that sets no package, as
\* TakeoutHandler of plugins/takeout/handler.py, goes under "fitbit2oscar".
InheritedPackageRegistered ==
    \A k \in 1..Len(defined) :
        defined[k].body = "" /\ defined[k].base = 0
            => defined[k].package = "fitbit2oscar"

====
